---- MODULE Spec2Model ----
(***************************************************************************)
(* The text-to-records pipelines of profai:                                *)
(*   PersonalizedQuizGenerator._parse_quiz_response  (question shape)      *)
(*   YouTubeProcessor.generate_flashcards            (card shape, the part *)
(*   after the generative service has answered)                            *)
(*                                                                         *)
(* A text is a sequence of lexemes.  Every character the code looks at     *)
(* (braces, brackets, quote, backslash, comma, colon, angle brackets,      *)
(* blank, newline, the mathematical symbols) is a lexeme of its own; a     *)
(* maximal run of other characters (a word, a number) is one lexeme.  The  *)
(* scanners and patterns of the code only tell these characters apart, so  *)
(* they act on lexemes exactly as they act on characters.                  *)
(***************************************************************************)
EXTENDS Integers, Sequences, FiniteSets, TLC

\* ------------------------------------------------------------------ text

LB == "{"
RB == "}"
LK == "["
RK == "]"
QT == "\""
BS == "\\"
CM == ","
CL == ":"
LT == "<"
GT == ">"
SP == " "
NL == "\n"

\* str.isspace for the lexemes of the model
IsSpace(c) == c \in {SP, NL}

\* The mathematical symbols of lines 225-230, one lexeme (and one
\* character) each
GE == "U+2265"
LE == "U+2264"
INF == "U+221E"
ELEM == "U+2208"
FORALL == "U+2200"
EXISTS == "U+2203"

\* The typographic quotation marks and apostrophes, one lexeme (and one
\* character) each
LDQ == "U+201C"
RDQ == "U+201D"
LSQ == "U+2018"
RSQ == "U+2019"

\* len() of a text: every lexeme counts its characters
LexLen(c) ==
    IF c \in {GE, LE, INF, ELEM, FORALL, EXISTS, LDQ, RDQ, LSQ, RSQ} THEN 1 ELSE Len(c)

RECURSIVE CharLenIn(_, _, _)
CharLenIn(s, lo, hi) ==
    IF lo > hi THEN 0
    ELSE IF lo = hi THEN LexLen(s[lo])
    ELSE CharLenIn(s, lo, (lo + hi) \div 2) + CharLenIn(s, (lo + hi) \div 2 + 1, hi)

CharLen(s) == CharLenIn(s, 1, Len(s))

\* The least and the greatest index of a set of indices, 0 when it is empty
FirstIn(S) == IF S = {} THEN 0 ELSE CHOOSE p \in S : \A q \in S : p <= q
LastIn(S) == IF S = {} THEN 0 ELSE CHOOSE p \in S : \A q \in S : q <= p

\* The lexemes of s from index i on, s[i:] of a 1-based index
From(s, i) == SubSeq(s, i, Len(s))

\* The lexemes of s[lo..hi] whose index is in keep, in order
RECURSIVE Pick(_, _, _, _)
Pick(s, keep, lo, hi) ==
    IF lo > hi THEN <<>>
    ELSE IF lo = hi THEN (IF lo \in keep THEN <<s[lo]>> ELSE <<>>)
    ELSE Pick(s, keep, lo, (lo + hi) \div 2) \o Pick(s, keep, (lo + hi) \div 2 + 1, hi)

\* True iff pat occurs in s at index p
MatchAt(s, pat, p) ==
    /\ p >= 1
    /\ p + Len(pat) - 1 <= Len(s)
    /\ \A k \in 1..Len(pat) : s[p + k - 1] = pat[k]

\* str.find(pat, from): the least index >= from where pat occurs, 0 for -1
StrFind(s, pat, from) == FirstIn({p \in from..Len(s) : MatchAt(s, pat, p)})

\* str.rfind(pat): the greatest index where pat occurs, 0 for -1
StrRFind(s, pat) == LastIn({p \in 1..Len(s) : MatchAt(s, pat, p)})

\* str.count(c) for a one-character c
StrCount(s, c) == Cardinality({i \in 1..Len(s) : s[i] = c})

\* c * n of Python: n copies of c, none for n <= 0
Times(c, n) == [i \in 1..(IF n > 0 THEN n ELSE 0) |-> c]

\* str.strip()
RECURSIVE LStrip(_)
LStrip(s) == IF s # <<>> /\ IsSpace(Head(s)) THEN LStrip(Tail(s)) ELSE s

RECURSIVE RStrip(_)
RStrip(s) ==
    IF s # <<>> /\ IsSpace(s[Len(s)]) THEN RStrip(SubSeq(s, 1, Len(s) - 1)) ELSE s

Strip(s) == RStrip(LStrip(s))

\* str.replace(old, new): every non-overlapping occurrence, left to right
\* (replacing a text by itself changes nothing)
RECURSIVE StrReplaceFrom(_, _, _, _)
StrReplaceFrom(s, old, new, from) ==
    LET p == StrFind(s, old, from)
    IN  IF p = 0 THEN From(s, from)
        ELSE SubSeq(s, from, p - 1) \o new \o StrReplaceFrom(s, old, new, p + Len(old))

StrReplace(s, old, new) == IF old = new THEN s ELSE StrReplaceFrom(s, old, new, 1)

\* -------------------------------------------------- Boundary Locator

\* response.find('{')
json_start(response) == StrFind(response, <<LB>>, 1)

\* The loop "for i in range(json_start, len(response))", taken from brace
\* to brace (no other character changes bracket_count): the index of the
\* '}' that brings bracket_count back to 0 (json_end - 1), 0 when the loop
\* ends without one (json_end == -1).  Every '{' and '}' counts, also
\* inside string literals.
RECURSIVE MatchBrace(_, _, _)
MatchBrace(response, i, bracket_count) ==
    LET j == FirstIn({p \in i..Len(response) : response[p] \in {LB, RB}})
    IN  IF j = 0 THEN 0
        ELSE LET n == IF response[j] = LB THEN bracket_count + 1 ELSE bracket_count - 1
             IN  IF response[j] = RB /\ n = 0 THEN j
                 ELSE MatchBrace(response, j + 1, n)

json_end(response) == MatchBrace(response, json_start(response), 0)

\* ----------------------------------------------------- Repair Engine

\* escape_next when the loop of lines 182-197 reaches index i: the run of
\* backslashes that ends right before i has odd length (a backslash sets
\* escape_next unless it is escaped itself)
RECURSIVE BackslashRun(_, _)
BackslashRun(s, i) == IF i >= 1 /\ s[i] = BS THEN 1 + BackslashRun(s, i - 1) ELSE 0

Escaped(s, i) == BackslashRun(s, i - 1) % 2 = 1

\* in_string after the loop: each quote reached with escape_next unset
\* flips it
InStringAtEnd(s) ==
    Cardinality({i \in 1..Len(s) : s[i] = QT /\ ~Escaped(s, i)}) % 2 = 1

\* completed_json after "if in_string: completed_json += '\"'"
CloseString(json_str) ==
    IF InStringAtEnd(json_str) THEN Append(json_str, QT) ELSE json_str

IdMarker == <<LB, QT, "id", QT, CL>>
RecordEnd == <<SP, SP, SP, SP, RB, CM>>
TailWindow == 100

\* '{"id":' in completed_json[-100:]
InTail(completed, pat) ==
    \E p \in 1..Len(completed) :
        /\ MatchAt(completed, pat, p)
        /\ CharLen(From(completed, p)) <= TailWindow

\* completed_json.strip().endswith('"')
EndsWithQuote(completed) ==
    LET t == Strip(completed) IN t # <<>> /\ t[Len(t)] = QT

\* The "incomplete question" cut: keep up to and including the last '    },'
DiscardTrailing(completed) ==
    IF InTail(completed, IdMarker) /\ EndsWithQuote(completed)
    THEN LET last_complete == StrRFind(completed, RecordEnd)
         IN  IF last_complete # 0
             THEN SubSeq(completed, 1, last_complete - 1 + 6)
             ELSE completed
    ELSE completed

\* A repair that closes what is open in nesting order, the record first
RepairInOrder(json_str) == CloseString(json_str) \o <<RB, RK, RB>>

\* The whole "json_end == -1" branch.  open_braces and open_brackets are
\* counted on completed_json before the cut.
Repair(json_str) ==
    LET completed_json == CloseString(json_str)
        open_braces == StrCount(completed_json, LB) - StrCount(completed_json, RB)
        open_brackets == StrCount(completed_json, LK) - StrCount(completed_json, RK)
    IN  DiscardTrailing(completed_json)
            \o Times(RK, open_brackets) \o Times(RB, open_braces)

\* json_str handed to the sanitizer (requires json_start # 0)
Locate(response) ==
    IF json_end(response) = 0
    THEN Repair(From(response, json_start(response)))
    ELSE SubSeq(response, json_start(response), json_end(response))

\* --------------------------------------------------------- Sanitizer

\* Index of the next '>' after index p, 0 if there is none
NextGT(s, p) == StrFind(s, <<GT>>, p + 1)

\* re.sub(r'<[^>]+>', '', s): a match runs from a '<' to the next '>' with
\* at least one character between them; scanning resumes after the match
\* (the words left and right of a removed tag stay two lexemes; no text of
\* the model has a tag inside a key or a number)
RECURSIVE StripTagsFrom(_, _)
StripTagsFrom(s, from) ==
    LET p == FirstIn({q \in from..Len(s) : s[q] = LT /\ NextGT(s, q) >= q + 2})
    IN  IF p = 0 THEN From(s, from)
        ELSE SubSeq(s, from, p - 1) \o StripTagsFrom(s, NextGT(s, p) + 1)

StripTags(s) == StripTagsFrom(s, 1)

\* The six str.replace calls on symbols, in the code's order
ReplaceSymbols(s) ==
    LET s1 == StrReplace(s, <<GE>>, <<GT, "=">>)
        s2 == StrReplace(s1, <<LE>>, <<LT, "=">>)
        s3 == StrReplace(s2, <<INF>>, <<"infinity">>)
        s4 == StrReplace(s3, <<ELEM>>, <<"in">>)
        s5 == StrReplace(s4, <<FORALL>>, <<"for", SP, "all">>)
    IN  StrReplace(s5, <<EXISTS>>, <<"there", SP, "exists">>)

\* re.sub(r'<([^>]*?)>', r'(\\1)', s): the template r'(\\1)' is an escaped
\* backslash followed by the character 1, so every match, whatever it
\* holds, is replaced by the four characters ( \ 1 )
RECURSIVE RewriteAnglesFrom(_, _)
RewriteAnglesFrom(s, from) ==
    LET p == FirstIn({q \in from..Len(s) : s[q] = LT /\ NextGT(s, q) # 0})
    IN  IF p = 0 THEN From(s, from)
        ELSE SubSeq(s, from, p - 1) \o <<"(", BS, "1", ")">>
                 \o RewriteAnglesFrom(s, NextGT(s, p) + 1)

RewriteAngles(s) == RewriteAnglesFrom(s, 1)

\* Index of the first lexeme at or after i that is not white space
RECURSIVE SkipSpace(_, _)
SkipSpace(s, i) == IF i <= Len(s) /\ IsSpace(s[i]) THEN SkipSpace(s, i + 1) ELSE i

\* re.sub(r',\s*}', '}', s) and re.sub(r',\s*]', ']', s): a match is a
\* comma, white space and the closer; matches cannot overlap, so all of
\* them lose their comma and white space at once
DropTrailingComma(s, closer) ==
    LET hits == {p \in 1..Len(s) :
                    /\ s[p] = CM
                    /\ SkipSpace(s, p + 1) <= Len(s)
                    /\ s[SkipSpace(s, p + 1)] = closer}
        dropped == {q \in 1..Len(s) : \E p \in hits : p <= q /\ q < SkipSpace(s, p + 1)}
    IN  Pick(s, (1..Len(s)) \ dropped, 1, Len(s))

\* Lines 241-242 as the interpreter reads them.  Line 241 replaces the
\* straight double quote by itself, twice.  On line 242 the three
\* apostrophes open a triple-quoted literal that runs to the next three:
\* the line is the single call replace(', "\'").replace(', "'").
NormalizeQuotes(s) ==
    LET s1 == StrReplace(StrReplace(s, <<QT>>, <<QT>>), <<QT>>, <<QT>>)
    IN  StrReplace(s1, <<CM, SP, QT, "'", QT, ")", ".", "replace", "(">>, <<"'">>)

\* Lines 222-242, in the code's order
Sanitize(json_str) ==
    NormalizeQuotes(
        DropTrailingComma(
            DropTrailingComma(RewriteAngles(ReplaceSymbols(StripTags(json_str))), RB),
            RK))

\* ------------------------------------------- Strict Parser (json.loads)

\* A parsed value carries its Python type: str (its lexemes), int, list
\* (its items), dict (its key/value pairs in insertion order), bool, None
PyStr(s) == [t |-> "str", v |-> s]
PyInt(n) == [t |-> "int", v |-> n]
PyList(a) == [t |-> "list", v |-> a]
PyDict(d) == [t |-> "dict", v |-> d]
PyBool(b) == [t |-> "bool", v |-> b]
PyNone == [t |-> "None", v |-> 0]

\* The integer literals of the model's texts
NumLexemes == {"0", "1", "2", "5", "-1"}
NumVal(c) ==
    CASE c = "0" -> 0 [] c = "1" -> 1 [] c = "2" -> 2 [] c = "5" -> 5 [] c = "-1" -> 0 - 1

\* The words of the model's texts that begin with one of b f n r t: after a
\* backslash their first character is a valid escape (a control character);
\* the decoded text keeps the pair as it stands
ControlEscapeWords ==
    {"topic", "tags", "true", "false", "null", "flashcards", "replace", "for", "there"}

Failed == [ok |-> FALSE, v |-> PyNone, i |-> 0]
Parsed(v, i) == [ok |-> TRUE, v |-> v, i |-> i]

\* py_scanstring with strict=True; i is the index after the opening quote.
\* The string ends at the first quote that no backslash escapes; a raw
\* control character or an invalid escape before it is an error.  The
\* decoded text drops the backslash of \" \\ and \/.
ScanString(s, i) ==
    LET close == FirstIn({p \in i..Len(s) : s[p] = QT /\ ~Escaped(s, p)})
        escapes == {j \in i..(close - 1) : s[j] = BS /\ ~Escaped(s, j)}
    IN  IF close = 0 THEN Failed
        ELSE IF \E j \in i..(close - 1) : s[j] = NL THEN Failed
        ELSE IF \E j \in escapes : s[j + 1] \notin {QT, BS, "/"} \cup ControlEscapeWords
             THEN Failed
        ELSE Parsed(PyStr(Pick(s,
                              {j \in i..(close - 1) :
                                  ~(j \in escapes /\ s[j + 1] \in {QT, BS, "/"})},
                              i, close - 1)),
                    close + 1)

\* dict[key] = value: a repeated key keeps its place and takes the new value
DictPut(d, key, value) ==
    IF \E k \in 1..Len(d) : d[k][1] = key
    THEN [k \in 1..Len(d) |-> IF d[k][1] = key THEN <<key, value>> ELSE d[k]]
    ELSE Append(d, <<key, value>>)

RECURSIVE ScanValue(_, _)
RECURSIVE ScanMembers(_, _, _)
RECURSIVE ScanItems(_, _, _)

\* JSONObject after '{' and white space: i is at '"' of a key
ScanMembers(s, i, d) ==
    IF i > Len(s) \/ s[i] # QT THEN Failed
    ELSE LET key == ScanString(s, i + 1)
         IN  IF ~key.ok THEN Failed
             ELSE LET c == SkipSpace(s, key.i)
                  IN  IF c > Len(s) \/ s[c] # CL THEN Failed
                      ELSE LET val == ScanValue(s, SkipSpace(s, c + 1))
                           IN  IF ~val.ok THEN Failed
                               ELSE LET e == SkipSpace(s, val.i)
                                        d2 == DictPut(d, key.v.v, val.v)
                                    IN  IF e > Len(s) THEN Failed
                                        ELSE IF s[e] = RB THEN Parsed(PyDict(d2), e + 1)
                                        ELSE IF s[e] = CM
                                             THEN ScanMembers(s, SkipSpace(s, e + 1), d2)
                                        ELSE Failed

\* JSONArray after '[' and white space: i is at the first lexeme of an item
ScanItems(s, i, a) ==
    LET val == ScanValue(s, i)
    IN  IF ~val.ok THEN Failed
        ELSE LET e == SkipSpace(s, val.i)
             IN  IF e > Len(s) THEN Failed
                 ELSE IF s[e] = RK THEN Parsed(PyList(Append(a, val.v)), e + 1)
                 ELSE IF s[e] = CM
                      THEN ScanItems(s, SkipSpace(s, e + 1), Append(a, val.v))
                 ELSE Failed

\* scan_once
ScanValue(s, i) ==
    IF i > Len(s) THEN Failed
    ELSE IF s[i] = QT THEN ScanString(s, i + 1)
    ELSE IF s[i] = LB
         THEN LET j == SkipSpace(s, i + 1)
              IN  IF j <= Len(s) /\ s[j] = RB THEN Parsed(PyDict(<<>>), j + 1)
                  ELSE ScanMembers(s, j, <<>>)
    ELSE IF s[i] = LK
         THEN LET j == SkipSpace(s, i + 1)
              IN  IF j <= Len(s) /\ s[j] = RK THEN Parsed(PyList(<<>>), j + 1)
                  ELSE ScanItems(s, j, <<>>)
    ELSE IF s[i] \in NumLexemes THEN Parsed(PyInt(NumVal(s[i])), i + 1)
    ELSE IF s[i] = "true" THEN Parsed(PyBool(TRUE), i + 1)
    ELSE IF s[i] = "false" THEN Parsed(PyBool(FALSE), i + 1)
    ELSE IF s[i] = "null" THEN Parsed(PyNone, i + 1)
    ELSE Failed

\* json.loads: one value between white space, nothing after it.  ok = FALSE
\* stands for json.JSONDecodeError.
Loads(s) ==
    LET val == ScanValue(s, SkipSpace(s, 1))
    IN  IF val.ok /\ SkipSpace(s, val.i) > Len(s) THEN val ELSE Failed

\* ------------------------------------ Validator & Assembler (questions)

\* dict.get(key, default) on the pairs of a dict
DictGet(d, key, default) ==
    IF \E k \in 1..Len(d) : d[k][1] = key
    THEN d[CHOOSE k \in 1..Len(d) : d[k][1] = key][2]
    ELSE default

\* bool(x)
Truthy(x) ==
    CASE x.t = "str" -> x.v # <<>>
      [] x.t = "int" -> x.v # 0
      [] x.t = "list" -> x.v # <<>>
      [] x.t = "dict" -> x.v # <<>>
      [] x.t = "bool" -> x.v
      [] OTHER -> FALSE

\* len(x): defined for str, list and dict, TypeError otherwise
HasLen(x) == x.t \in {"str", "list", "dict"}
PyLen(x) == IF x.t = "str" THEN CharLen(x.v) ELSE Len(x.v)

\* int(x): an int, a bool, or a str holding an integer literal between
\* white space; ValueError or TypeError otherwise
IntOk(x) ==
    \/ x.t \in {"int", "bool"}
    \/ x.t = "str" /\ Len(Strip(x.v)) = 1 /\ Strip(x.v)[1] \in NumLexemes
IntOf(x) ==
    CASE x.t = "int" -> x.v
      [] x.t = "bool" -> IF x.v THEN 1 ELSE 0
      [] OTHER -> NumVal(Strip(x.v)[1])

\* The body of the loop of lines 248-273 for item q_data: what ends it.
\* "added": the QuizQuestion is appended; "skipped": one of the two
\* "continue" checks; otherwise the exception raised inside the try.
RecordOutcome(q_data) ==
    IF q_data.t # "dict" THEN "AttributeError"
    ELSE LET question == DictGet(q_data.v, <<"question">>, PyNone)
             options == DictGet(q_data.v, <<"options">>, PyNone)
         IN  IF ~Truthy(question) \/ ~Truthy(options) THEN "skipped"
             ELSE IF ~HasLen(options) THEN "TypeError"
             ELSE IF PyLen(options) < 2 THEN "skipped"
             ELSE IF question.t # "str" THEN "AttributeError"
             ELSE IF ~IntOk(DictGet(q_data.v, <<"correct_answer">>, PyInt(0)))
                  THEN IF DictGet(q_data.v, <<"correct_answer">>, PyInt(0)).t = "str"
                       THEN "ValueError" ELSE "TypeError"
             ELSE IF DictGet(q_data.v, <<"explanation">>, PyStr(<<>>)).t # "str"
                  THEN "AttributeError"
             ELSE "added"

\* QuizQuestion(...) of lines 259-268 for item q_data at index i (from 0)
QuizQuestion(q_data, i) ==
    [id |-> DictGet(q_data.v, <<"id">>, PyStr(<<"q" \o ToString(i + 1)>>)),
     question |-> Strip(DictGet(q_data.v, <<"question">>, PyStr(<<>>)).v),
     options |-> DictGet(q_data.v, <<"options">>, PyList(<<>>)),
     correct_answer |-> IntOf(DictGet(q_data.v, <<"correct_answer">>, PyInt(0))),
     explanation |-> Strip(DictGet(q_data.v, <<"explanation">>, PyStr(<<>>)).v),
     difficulty |-> DictGet(q_data.v, <<"difficulty">>, PyStr(<<"medium">>)),
     topic |-> DictGet(q_data.v, <<"topic">>, PyStr(<<"general">>)),
     concepts |-> DictGet(q_data.v, <<"concepts">>, PyList(<<PyStr(<<"general">>)>>))]

\* "except Exception as e: ... continue" around one item (lines 271-273)
InnerCatches(e) == e \in {"AttributeError", "TypeError", "ValueError"}

\* iter(x) of enumerate(x): the items of a list, the keys of a dict, the
\* pieces of a str; TypeError for the values that are not iterable
Iterable(x) == x.t \in {"list", "dict", "str"}
IterItems(x) ==
    CASE x.t = "list" -> x.v
      [] x.t = "dict" -> [k \in 1..Len(x.v) |-> PyStr(x.v[k][1])]
      [] OTHER -> [k \in 1..Len(x.v) |-> PyStr(<<x.v[k]>>)]

\* The loop of lines 248-273 from item k on: the questions appended, and
\* the exception that left the loop ("none" when it ran to its end)
RECURSIVE ValidateFrom(_, _, _)
ValidateFrom(items, k, acc) ==
    IF k > Len(items) THEN [exc |-> "none", questions |-> acc]
    ELSE LET out == RecordOutcome(items[k])
         IN  IF out = "added"
             THEN ValidateFrom(items, k + 1, Append(acc, QuizQuestion(items[k], k - 1)))
             ELSE IF out = "skipped" \/ InnerCatches(out)
             THEN ValidateFrom(items, k + 1, acc)
             ELSE [exc |-> out, questions |-> acc]

\* "if len(questions) > 0" (line 275) and the comparison one off
SomeOrNone(questions) == Len(questions) >= 0

HasQuestions(questions) == Len(questions) > 0

\* Lines 246-273 on the parsed quiz_data
Validate(quiz_data) ==
    IF quiz_data.t # "dict" THEN [exc |-> "AttributeError", questions |-> <<>>]
    ELSE LET qs == DictGet(quiz_data.v, <<"questions">>, PyList(<<>>))
         IN  IF ~Iterable(qs) THEN [exc |-> "TypeError", questions |-> <<>>]
             ELSE ValidateFrom(IterItems(qs), 1, <<>>)

\* ------------------------------------------------- Fallback Library

FallbackQuestion(id, question, options, correct_answer, explanation, difficulty, topic, concepts) ==
    [id |-> PyStr(<<id>>), question |-> <<question>>,
     options |-> PyList([k \in 1..Len(options) |-> PyStr(<<options[k]>>)]),
     correct_answer |-> correct_answer, explanation |-> <<explanation>>,
     difficulty |-> PyStr(<<difficulty>>), topic |-> PyStr(<<topic>>),
     concepts |-> PyList([k \in 1..Len(concepts) |-> PyStr(<<concepts[k]>>)])]

\* _generate_better_fallback_quiz: each text is kept as one lexeme
FallbackQuiz ==
    << FallbackQuestion("fallback1", "What is a variable in programming?",
         << "A container that stores data values", "A type of loop structure",
            "A mathematical equation", "A debugging tool" >>, 0,
         "A variable is a container that stores data values that can be changed during program execution.",
         "easy", "variables", << "programming basics", "data storage" >>),
       FallbackQuestion("fallback2", "What does a loop do in programming?",
         << "Stores data permanently", "Repeats a block of code multiple times",
            "Creates user interfaces", "Connects to the internet" >>, 1,
         "Loops allow you to repeat a block of code multiple times, which is essential for automation and efficiency.",
         "easy", "loops", << "control structures", "repetition" >>),
       FallbackQuestion("fallback3", "What is the purpose of an if statement?",
         << "To repeat code continuously", "To store user input",
            "To make decisions based on conditions", "To display output to users" >>, 2,
         "If statements allow programs to make decisions by executing different code based on whether conditions are true or false.",
         "medium", "conditionals", << "decision making", "logic" >>),
       FallbackQuestion("fallback4", "What is debugging in programming?",
         << "Writing new code features", "Finding and fixing errors in code",
            "Designing user interfaces", "Testing code performance" >>, 1,
         "Debugging is the process of finding and fixing bugs (errors) in your code to make it work correctly.",
         "medium", "debugging", << "problem solving", "error fixing" >>),
       FallbackQuestion("fallback5", "Which of these is a good practice when writing code?",
         << "Never add comments to explain your code",
            "Use meaningful names for variables and functions",
            "Write all code in one long line", "Ignore error messages completely" >>, 1,
         "Using meaningful names makes your code easier to read and understand for yourself and others.",
         "medium", "best practices", << "code quality", "readability" >>),
       FallbackQuestion("fallback6", "What is an algorithm?",
         << "A programming language", "A step-by-step procedure to solve a problem",
            "A type of computer hardware", "A debugging tool" >>, 1,
         "An algorithm is a step-by-step procedure or set of rules for solving a problem or completing a task.",
         "easy", "algorithms", << "problem solving", "logic" >>),
       FallbackQuestion("fallback7", "What happens when you run a program?",
         << "The code is deleted from memory",
            "The computer translates and executes your instructions",
            "The code is automatically corrected", "Nothing happens until you debug it" >>, 1,
         "When you run a program, the computer translates your code into machine instructions and executes them step by step.",
         "medium", "program execution", << "computer processing", "code execution" >>) >>

\* ------------------------------------------ card pipeline (flashcards)

\* A search that takes the whole text when it holds no object
SearchObjectOrAll(response) ==
    LET first == StrFind(response, <<LB>>, 1)
        last == StrRFind(response, <<RB>>)
    IN  IF first # 0 /\ last > first THEN SubSeq(response, first, last) ELSE response

\* re.search(r'\{.*\}', response, re.DOTALL).group(): from the first '{' to
\* the last '}' of the text; <<>> stands for "no match" (a match is never
\* empty)
SearchObject(response) ==
    LET first == StrFind(response, <<LB>>, 1)
        last == StrRFind(response, <<RB>>)
    IN  IF first # 0 /\ last > first THEN SubSeq(response, first, last) ELSE <<>>

\* Strategy 1 (line 267): newline, carriage return and tab become a blank
BasicCleaning(s) == [k \in 1..Len(s) |-> IF s[k] = NL THEN SP ELSE s[k]]

\* Strategy 2 (line 270), re.sub(r',(\s*[}\]])', r'\1', s): a comma that
\* white space and a closer follow is dropped, the white space is kept
DropCommaBeforeCloser(s) ==
    LET hits == {p \in 1..Len(s) :
                    /\ s[p] = CM
                    /\ SkipSpace(s, p + 1) <= Len(s)
                    /\ s[SkipSpace(s, p + 1)] \in {RB, RK}}
    IN  Pick(s, (1..Len(s)) \ hits, 1, Len(s))

\* Index of the next '"' at or after index i, 0 if there is none
NextQuote(s, i) == IF i = 0 THEN 0 ELSE StrFind(s, <<QT>>, i)

\* Strategy 3 (line 274),
\* re.sub(r'(:\s*"[^"]*)"([^"]*)"([^"]*")', r'\1"\2\"\3', s): a match is a
\* colon, white space and four quotes q1..q4 with no quote between them;
\* the replacement writes a backslash before q3 and nothing else.  Scanning
\* resumes after q4.
RECURSIVE EscapeThirdQuoteFrom(_, _)
EscapeThirdQuoteFrom(s, from) ==
    LET p == FirstIn({c \in from..Len(s) :
                         /\ s[c] = CL
                         /\ SkipSpace(s, c + 1) <= Len(s)
                         /\ s[SkipSpace(s, c + 1)] = QT})
        q1 == IF p = 0 THEN 0 ELSE SkipSpace(s, p + 1)
        q2 == IF q1 = 0 THEN 0 ELSE NextQuote(s, q1 + 1)
        q3 == IF q2 = 0 THEN 0 ELSE NextQuote(s, q2 + 1)
        q4 == IF q3 = 0 THEN 0 ELSE NextQuote(s, q3 + 1)
    IN  IF q4 = 0 THEN From(s, from)
        ELSE SubSeq(s, from, q3 - 1) \o <<BS>> \o SubSeq(s, q3, q4)
                 \o EscapeThirdQuoteFrom(s, q4 + 1)

EscapeThirdQuote(s) == EscapeThirdQuoteFrom(s, 1)

\* Strategy 4 (lines 277-282): cut to the outermost braces unless the text
\* already starts with '{'
EnsureStructure(fixed_json) ==
    LET stripped == Strip(fixed_json)
        start == StrFind(fixed_json, <<LB>>, 1)
        end == StrRFind(fixed_json, <<RB>>)
    IN  IF stripped # <<>> /\ stripped[1] = LB THEN fixed_json
        ELSE IF start # 0 /\ end # 0 /\ end > start THEN SubSeq(fixed_json, start, end)
        ELSE fixed_json

\* fixed_json of lines 264-282
FixJson(json_str) ==
    EnsureStructure(EscapeThirdQuote(DropCommaBeforeCloser(BasicCleaning(json_str))))

\* Strategy 5, flashcard_pattern (line 293).  One field of the pattern at
\* index m: "name"\s*:\s*"(value)" where the value runs to the next quote
\* and, for question and answer ([^"]+), is not empty.  Yields the value
\* and the index after its closing quote.
NoField == [ok |-> FALSE, value |-> <<>>, next |-> 0]

FieldAt(s, m, name, nonempty) ==
    IF ~MatchAt(s, <<QT, name, QT>>, m) THEN NoField
    ELSE LET c == SkipSpace(s, m + 3)
         IN  IF c > Len(s) \/ s[c] # CL THEN NoField
             ELSE LET q == SkipSpace(s, c + 1)
                  IN  IF q > Len(s) \/ s[q] # QT THEN NoField
                      ELSE LET e == NextQuote(s, q + 1)
                           IN  IF e = 0 \/ (nonempty /\ e = q + 1) THEN NoField
                               ELSE [ok |-> TRUE, value |-> SubSeq(s, q + 1, e - 1),
                                     next |-> e + 1]

PatternFields == <<"question", "answer", "category", "difficulty">>

\* The rest of the pattern from field k on, after index a: [^}]* is greedy,
\* so of the places the field can start at before the next '}' the
\* rightmost one from which the rest still matches is taken
NoMatch == [ok |-> FALSE, values |-> <<>>, next |-> 0]

RECURSIVE RestAt(_, _, _)
RestAt(s, a, k) ==
    LET stop == StrFind(s, <<RB>>, a)
        limit == IF stop = 0 THEN Len(s) ELSE stop
        field(m) == FieldAt(s, m, PatternFields[k], k <= 2)
        after(m) == IF k = Len(PatternFields)
                    THEN [ok |-> TRUE, values |-> <<>>, next |-> field(m).next]
                    ELSE RestAt(s, field(m).next, k + 1)
        m == LastIn({p \in a..limit : field(p).ok /\ after(p).ok})
    IN  IF m = 0 THEN NoMatch
        ELSE [ok |-> TRUE, values |-> <<field(m).value>> \o after(m).values,
              next |-> after(m).next]

\* The whole pattern at index p
PatternAt(s, p) ==
    LET question == FieldAt(s, p, PatternFields[1], TRUE)
    IN  IF ~question.ok THEN NoMatch
        ELSE LET rest == RestAt(s, question.next, 2)
             IN  IF ~rest.ok THEN NoMatch
                 ELSE [ok |-> TRUE, values |-> <<question.value>> \o rest.values,
                       next |-> rest.next]

\* re.findall(flashcard_pattern, json_str, re.DOTALL): the matches from
\* left to right, each search resuming where the last match ended
RECURSIVE FindAllFrom(_, _)
FindAllFrom(s, from) ==
    LET p == FirstIn({q \in from..Len(s) : PatternAt(s, q).ok})
    IN  IF p = 0 THEN <<>>
        ELSE <<PatternAt(s, p).values>> \o FindAllFrom(s, PatternAt(s, p).next)

FindAll(json_str) == FindAllFrom(json_str, 1)

\* Lines 298-311: the dict rebuilt from one match
RebuiltCard(match) ==
    LET question == StrReplace(Strip(match[1]), <<BS, QT>>, <<QT>>)
        answer == StrReplace(Strip(match[2]), <<BS, QT>>, <<QT>>)
        category == IF Strip(match[3]) # <<>> THEN Strip(match[3]) ELSE <<"General">>
        difficulty == IF Strip(match[4]) # <<>> THEN Strip(match[4]) ELSE <<"medium">>
    IN  PyDict(<< <<(<<"question">>), PyStr(question)>>, <<(<<"answer">>), PyStr(answer)>>,
                  <<(<<"category">>), PyStr(category)>>,
                  <<(<<"difficulty">>), PyStr(difficulty)>>,
                  <<(<<"tags">>), PyList(<<PyStr(<<"extracted">>)>>)>> >>)

\* data = {"flashcards": rebuilt_flashcards} (line 313)
Rebuilt(matches) ==
    PyDict(<< <<(<<"flashcards">>),
               PyList([k \in 1..Len(matches) |-> RebuiltCard(matches[k])])>> >>)

\* f"card_{i+1:03d}" for index i (from 0)
CardId(i) ==
    "card_" \o (IF i + 1 < 10 THEN "00" ELSE IF i + 1 < 100 THEN "0" ELSE "")
            \o ToString(i + 1)

\* A loop body without the check of line 342
CardOutcomeUnchecked(card_data) ==
    IF card_data.t # "dict" THEN "skipped"
    ELSE IF DictGet(card_data.v, <<"question">>, PyStr(<<>>)).t # "str"
            \/ DictGet(card_data.v, <<"answer">>, PyStr(<<>>)).t # "str"
         THEN "AttributeError"
    ELSE "added"

\* A loop body that tests question and answer before trimming them
CardOutcomeUntrimmed(card_data) ==
    IF card_data.t # "dict" THEN "skipped"
    ELSE LET question == DictGet(card_data.v, <<"question">>, PyStr(<<>>))
             answer == DictGet(card_data.v, <<"answer">>, PyStr(<<>>))
         IN  IF question.t # "str" \/ answer.t # "str" THEN "AttributeError"
             ELSE IF question.v # <<>> /\ answer.v # <<>> THEN "added"
             ELSE "skipped"

\* The body of the loop of lines 324-343 for item card_data: what ends it.
\* "skipped": not a dict, or an empty question or answer; "added": the
\* Flashcard is appended; "AttributeError": .strip() on a value that is
\* no str.
CardOutcome(card_data) ==
    IF card_data.t # "dict" THEN "skipped"
    ELSE LET question == DictGet(card_data.v, <<"question">>, PyStr(<<>>))
             answer == DictGet(card_data.v, <<"answer">>, PyStr(<<>>))
         IN  IF question.t # "str" \/ answer.t # "str" THEN "AttributeError"
             ELSE IF Strip(question.v) # <<>> /\ Strip(answer.v) # <<>> THEN "added"
             ELSE "skipped"

\* A Flashcard that keeps the id of its record when the record has one
FlashcardKeepingId(card_data, i) ==
    [id |-> DictGet(card_data.v, <<"id">>, PyStr(<<CardId(i)>>)).v[1],
     question |-> Strip(DictGet(card_data.v, <<"question">>, PyStr(<<>>)).v),
     answer |-> Strip(DictGet(card_data.v, <<"answer">>, PyStr(<<>>)).v),
     category |-> DictGet(card_data.v, <<"category">>, PyStr(<<"General">>)),
     difficulty |-> DictGet(card_data.v, <<"difficulty">>, PyStr(<<"medium">>)),
     tags |-> IF DictGet(card_data.v, <<"tags">>, PyNone).t = "list"
              THEN DictGet(card_data.v, <<"tags">>, PyList(<<>>))
              ELSE PyList(<<>>),
     status |-> "new", review_count |-> 0, created_at |-> "", last_reviewed |-> ""]

\* Flashcard(...) of lines 328-339 for item card_data at index i (from 0)
Flashcard(card_data, i) ==
    [id |-> CardId(i),
     question |-> Strip(DictGet(card_data.v, <<"question">>, PyStr(<<>>)).v),
     answer |-> Strip(DictGet(card_data.v, <<"answer">>, PyStr(<<>>)).v),
     category |-> DictGet(card_data.v, <<"category">>, PyStr(<<"General">>)),
     difficulty |-> DictGet(card_data.v, <<"difficulty">>, PyStr(<<"medium">>)),
     tags |-> IF DictGet(card_data.v, <<"tags">>, PyNone).t = "list"
              THEN DictGet(card_data.v, <<"tags">>, PyList(<<>>))
              ELSE PyList(<<>>),
     status |-> "new", review_count |-> 0, created_at |-> "", last_reviewed |-> ""]

\* The loop of lines 324-343 from item k on: the cards appended, and the
\* exception that left the loop ("none" when it ran to its end)
RECURSIVE BuildFrom(_, _, _)
BuildFrom(items, k, acc) ==
    IF k > Len(items) THEN [exc |-> "none", flashcards |-> acc]
    ELSE LET out == CardOutcome(items[k])
         IN  IF out = "added"
             THEN BuildFrom(items, k + 1, Append(acc, Flashcard(items[k], k - 1)))
             ELSE IF out = "skipped" THEN BuildFrom(items, k + 1, acc)
             ELSE [exc |-> out, flashcards |-> acc]

\* Lines 322-346 on the parsed (or rebuilt) data
Build(card_json) ==
    IF card_json.t # "dict" THEN [exc |-> "AttributeError", flashcards |-> <<>>]
    ELSE LET cards == DictGet(card_json.v, <<"flashcards">>, PyList(<<>>))
         IN  IF ~Iterable(cards) THEN [exc |-> "TypeError", flashcards |-> <<>>]
             ELSE BuildFrom(IterItems(cards), 1, <<>>)

\* ------------------------------------------------ the response texts

\* The payload the prompt asks the service for (lines 106-120), written
\* without optional white space: strings between quotes with \" and \\
\* escaped, members and items separated by commas
EscapeText(s) ==
    StrReplace(StrReplace(s, <<BS>>, <<BS, BS>>), <<QT>>, <<BS, QT>>)

\* Concatenation of the texts parts[lo..hi] with sep between them
RECURSIVE Join(_, _, _, _)
Join(parts, sep, lo, hi) ==
    IF lo > hi THEN <<>>
    ELSE IF lo = hi THEN parts[lo]
    ELSE Join(parts, sep, lo, (lo + hi) \div 2) \o sep
             \o Join(parts, sep, (lo + hi) \div 2 + 1, hi)

RECURSIVE Dumps(_)
Dumps(x) ==
    CASE x.t = "str" -> <<QT>> \o EscapeText(x.v) \o <<QT>>
      [] x.t = "int" -> <<ToString(x.v)>>
      [] x.t = "bool" -> IF x.v THEN <<"true">> ELSE <<"false">>
      [] x.t = "None" -> <<"null">>
      [] x.t = "list" ->
            <<LK>> \o Join([k \in 1..Len(x.v) |-> Dumps(x.v[k])], <<CM>>, 1, Len(x.v))
                   \o <<RK>>
      [] x.t = "dict" ->
            <<LB>> \o Join([k \in 1..Len(x.v) |->
                              <<QT>> \o EscapeText(x.v[k][1]) \o <<QT, CL>>
                                     \o Dumps(x.v[k][2])],
                           <<CM>>, 1, Len(x.v))
                   \o <<RB>>

\* A question record of the payload: its members in the prompt's order
Word(w) == PyStr(<<w>>)
TwoOptions == PyList(<<Word("A"), Word("B")>>)
Question(question, options, correct_answer) ==
    << <<(<<"question">>), question>>, <<(<<"options">>), options>>,
       <<(<<"correct_answer">>), correct_answer>> >>
WithId(id, members) == << <<(<<"id">>), id>> >> \o members
Details(explanation, difficulty, topic, concepts) ==
    << <<(<<"explanation">>), explanation>>, <<(<<"difficulty">>), difficulty>>,
       <<(<<"topic">>), topic>>, <<(<<"concepts">>), concepts>> >>

\* The question records the model draws payloads from, by name.  The first
\* group satisfies the QuestionRecord schema, the second does not.
QuestionNames ==
    {"id1", "id2", "noid", "brace", "quoted", "tagged", "full", "fullsym", "baddiff",
     "blank", "range", "qtype", "noopts", "oneopt", "emptyopt", "optstr", "ansstr",
     "notdict"}

QuestionData(name) ==
    CASE name = "id1" -> PyDict(WithId(Word("q1"), Question(Word("Q"), TwoOptions, PyInt(0))))
      [] name = "id2" -> PyDict(WithId(Word("q2"), Question(Word("R"), TwoOptions, PyInt(1))))
      [] name = "noid" -> PyDict(Question(Word("S"), TwoOptions, PyInt(1)))
      [] name = "brace" ->
            PyDict(Question(PyStr(<<"a", RB, "b">>), TwoOptions, PyInt(0)))
      [] name = "quoted" ->
            PyDict(Question(PyStr(<<"say", SP, QT, "hi", QT>>), TwoOptions, PyInt(0)))
      [] name = "tagged" ->
            PyDict(Question(PyStr(<<"a", LT, "b", GT, "c">>), TwoOptions, PyInt(0)))
      [] name = "full" ->
            PyDict(WithId(Word("q3"), Question(Word("T"), TwoOptions, PyInt(1)))
                   \o Details(Word("E"), Word("easy"), Word("loops"), PyList(<<Word("c")>>)))
      [] name = "fullsym" ->
            PyDict(WithId(Word("q4"),
                          Question(PyStr(<<"x", LT, "y", GT, "z">>), TwoOptions, PyInt(0)))
                   \o Details(PyStr(<<"n", GE, "1">>), Word("hard"), Word("sets"),
                              PyList(<<PyStr(<<LK, "a", CM, RK>>)>>)))
      [] name = "baddiff" ->
            PyDict(Question(Word("Q"), TwoOptions, PyInt(0))
                   \o << <<(<<"difficulty">>), Word("extreme")>> >>)
      [] name = "blank" -> PyDict(Question(PyStr(<<SP>>), TwoOptions, PyInt(0)))
      [] name = "range" -> PyDict(Question(Word("Q"), TwoOptions, PyInt(5)))
      [] name = "qtype" -> PyDict(Question(PyInt(5), TwoOptions, PyInt(0)))
      [] name = "noopts" -> PyDict(<< <<(<<"question">>), Word("Q")>> >>)
      [] name = "oneopt" -> PyDict(Question(Word("Q"), PyList(<<Word("A")>>), PyInt(0)))
      [] name = "emptyopt" ->
            PyDict(Question(Word("Q"), PyList(<<PyStr(<<>>), Word("B")>>), PyInt(0)))
      [] name = "optstr" -> PyDict(Question(Word("Q"), Word("AB"), PyInt(0)))
      [] name = "ansstr" -> PyDict(Question(Word("Q"), TwoOptions, Word("x")))
      [] name = "notdict" -> Word("s")

\* A card record of the payload the flashcard prompt asks for (lines
\* 221-231): its members in the prompt's order
Card(question, answer, category, difficulty, tags) ==
    << <<(<<"question">>), question>>, <<(<<"answer">>), answer>>,
       <<(<<"category">>), category>>, <<(<<"difficulty">>), difficulty>>,
       <<(<<"tags">>), tags>> >>

\* The card records the model draws payloads from, by name.  The first
\* group has a question and an answer, the second does not.
CardNames ==
    {"c1", "c2", "cmin", "cid", "cquoted", "ctagstr",
     "cnoanswer", "cblank", "cqtype", "cnotdict"}

CardData(name) ==
    CASE name = "c1" ->
            PyDict(Card(Word("Q"), Word("A"), Word("General"), Word("medium"),
                        PyList(<<Word("concept")>>)))
      [] name = "c2" ->
            PyDict(Card(Word("R"), Word("B"), Word("G"), Word("easy"), PyList(<<>>)))
      [] name = "cmin" ->
            PyDict(<< <<(<<"question">>), Word("S")>>, <<(<<"answer">>), Word("C")>> >>)
      [] name = "cid" ->
            PyDict(<< <<(<<"id">>), Word("card_001")>>, <<(<<"question">>), Word("T")>>,
                      <<(<<"answer">>), Word("D")>> >>)
      [] name = "cquoted" ->
            PyDict(Card(Word("Q"), PyStr(<<"say", SP, QT, "hi", QT>>), Word("G"),
                        Word("easy"), PyList(<<>>)))
      [] name = "ctagstr" ->
            PyDict(Card(Word("Q"), Word("A"), Word("G"), Word("easy"), Word("t")))
      [] name = "cnoanswer" -> PyDict(<< <<(<<"question">>), Word("Q")>> >>)
      [] name = "cblank" ->
            PyDict(<< <<(<<"question">>), PyStr(<<SP>>)>>, <<(<<"answer">>), Word("A")>> >>)
      [] name = "cqtype" ->
            PyDict(<< <<(<<"question">>), PyInt(5)>>, <<(<<"answer">>), Word("A")>> >>)
      [] name = "cnotdict" -> Word("s")

RecordData(name) ==
    IF name \in QuestionNames THEN QuestionData(name) ELSE CardData(name)

\* Bounds of the model: the records of a payload
MaxRecords == 2

Indent == <<NL, SP, SP, SP, SP>>

\* One record of an indented payload: the record and its closing brace on
\* lines of their own, indented by four blanks
Indented(text) ==
    IF text[Len(text)] = RB
    THEN Indent \o SubSeq(text, 1, Len(text) - 1) \o Indent \o <<RB>>
    ELSE Indent \o text

\* The text of records[1..n] of a payload, a comma after each but the last
RecordsText(records, style, n) ==
    Join([k \in 1..n |-> IF style = "indented" THEN Indented(Dumps(records[k]))
                         ELSE Dumps(records[k])],
         <<CM>>, 1, n)

\* {"<key>":[ records ]}
PayloadText(key, records, style) ==
    <<LB, QT, key, QT, CL, LK>> \o RecordsText(records, style, Len(records))
        \o (IF style = "indented" THEN <<NL>> ELSE <<>>) \o <<RK, RB>>

\* Index of the opening brace of the last record of the payload
LastRecordStart(key, records, style) ==
    Len(<<LB, QT, key, QT, CL, LK>> \o RecordsText(records, style, Len(records) - 1))
        + (IF Len(records) > 1 THEN 1 ELSE 0)
        + (IF style = "indented" THEN Len(Indent) ELSE 0) + 1

\* Texts that are no serialized payload, by name
RawNames ==
    {"empty", "prose", "markers", "notlist", "nokey", "trailing", "garbage",
     "cardmarkers", "cardtrailing", "cardbare", "cardquote", "cardnotlist",
     "commas", "symangle", "cardquoteblank", "smartquotes"}

\* "question": "<q>", "answer": "<a>", "category": "G", "difficulty": "easy"
CardMarkers(q, a) ==
    <<QT, "question", QT, CL, SP, QT, q, QT, CM, SP, QT, "answer", QT, CL, SP, QT>>
        \o a \o <<QT, CM, SP, QT, "category", QT, CL, SP, QT, "G", QT, CM, SP,
                  QT, "difficulty", QT, CL, SP, QT, "easy", QT>>

RawText(name) ==
    CASE name = "empty" -> <<>>
      [] name = "prose" ->
            <<"Sorry", CM, SP, "I", SP, "cannot", SP, "help", SP, "with", SP, "that", ".">>
      [] name = "markers" ->
            <<QT, "question", QT, CL, SP, QT, "Q", QT, CM, SP, QT, "options", QT, CL, SP,
              LK, QT, "A", QT, CM, QT, "B", QT, RK, CM, SP,
              QT, "correct_answer", QT, CL, SP, "0">>
      [] name = "notlist" -> <<LB, QT, "questions", QT, CL, "5", RB>>
      [] name = "nokey" -> <<LB, QT, "x", QT, CL, "1", RB>>
      [] name = "trailing" ->
            <<LB, QT, "questions", QT, CL, LK, LB, QT, "question", QT, CL, QT, "Q", QT, CM,
              QT, "options", QT, CL, LK, QT, "A", QT, CM, QT, "B", QT, CM, RK, CM, RB,
              CM, RK, RB>>
      [] name = "garbage" -> <<LB, QT, "questions", QT, CL, LK, LB, RK, RB>>
      [] name = "cardmarkers" ->
            CardMarkers("Q", <<"A">>) \o <<NL>> \o CardMarkers("R", <<"B">>)
      [] name = "cardtrailing" ->
            <<LB, QT, "flashcards", QT, CL, LK, LB>> \o CardMarkers("Q", <<"A">>)
                \o <<CM, RB, CM, RK, RB>>
      [] name = "cardbare" ->
            <<LB, QT, "flashcards", QT, CL, LK, LB, QT, "question", QT, CL, QT, "Q", QT,
              CM, QT, "answer", QT, CL, QT, "A", QT, CM, RB, RK, RB>>
      [] name = "cardquote" ->
            <<LB, QT, "flashcards", QT, CL, LK, LB>>
                \o CardMarkers("Q", <<"say", SP, QT, "hi", QT, SP, "now">>)
                \o <<RB, RK, RB>>
      [] name = "cardquoteblank" ->
            <<LB, QT, "flashcards", QT, CL, LK, LB>>
                \o CardMarkers(SP, <<"say", SP, QT, "hi", QT, SP, "now">>)
                \o <<RB, CM, LB>> \o CardMarkers("R", <<"B">>) \o <<RB, RK, RB>>
      [] name = "cardnotlist" -> <<LB, QT, "flashcards", QT, CL, "5", RB>>
      [] name = "commas" ->
            <<LB, QT, "questions", QT, CL, LK, LB, QT, "question", QT, CL, QT, "Q", QT, CM,
              QT, "options", QT, CL, LK, QT, "A", QT, CM, QT, "B", QT, CM, CM, RK, RB,
              RK, RB>>
      [] name = "symangle" ->
            <<LB, QT, "questions", QT, CL, LK, LB, QT, "question", QT, CL, QT,
              "a", LE, "b", GT, "c", QT, CM,
              QT, "options", QT, CL, LK, QT, "A", QT, CM, QT, "B", QT, RK, RB, RK, RB>>
      [] name = "smartquotes" ->
            <<LB, QT, "questions", QT, CL, LK, LB, QT, "question", QT, CL, QT,
              "say", SP, LDQ, "hi", RDQ, SP, "it", RSQ, "s", QT, CM,
              QT, "options", QT, CL, LK, QT, "A", QT, CM, QT, "B", QT, RK, RB, RK, RB>>

ProseBefore == <<"Here", SP, "it", SP, "is", CL, NL>>
ProseAfter == <<NL, "Done", ".">>

\* Where a response text comes from: a payload of question records (by
\* name) in one of two layouts, whole (cut = 0) or cut off after cut
\* lexemes (from right before the last record to right before the last
\* brace), alone or between prose; or a raw text
QuestionLists == UNION {[1..n -> QuestionNames] : n \in 0..MaxRecords}
CutNames == {"id1", "noid", "brace"}
CutLists == UNION {[1..n -> CutNames] : n \in 1..MaxRecords}
CardLists == UNION {[1..n -> CardNames] : n \in 0..MaxRecords}
CutCardNames == {"c1", "cmin"}
CutCardLists == UNION {[1..n -> CutCardNames] : n \in 1..MaxRecords}
Records(names) == [k \in 1..Len(names) |-> RecordData(names[k])]

Source(kind, names, style, wrap, cut, raw) ==
    [kind |-> kind, names |-> names, style |-> style, wrap |-> wrap, cut |-> cut,
     raw |-> raw]

WholeSources ==
    {Source("questions", names, "compact", FALSE, 0, "") : names \in QuestionLists}
        \cup {Source("questions", names, style, TRUE, 0, "") :
                 names \in CutLists, style \in {"compact", "indented"}}
        \cup {Source("flashcards", names, "compact", FALSE, 0, "") : names \in CardLists}
        \cup {Source("flashcards", names, style, TRUE, 0, "") :
                 names \in CutCardLists, style \in {"compact", "indented"}}

CutSources ==
    UNION {{Source("questions", names, style, FALSE, cut, "") :
               cut \in (LastRecordStart("questions", Records(names), style) - 1)
                        ..(Len(PayloadText("questions", Records(names), style)) - 1)} :
           names \in CutLists, style \in {"compact", "indented"}}
        \cup UNION {{Source("flashcards", names, "compact", FALSE, cut, "") :
                        cut \in (LastRecordStart("flashcards", Records(names), "compact") - 1)
                                 ..(Len(PayloadText("flashcards", Records(names), "compact")) - 1)} :
                    names \in CutCardLists}

RawSources == {Source("raw", <<>>, "", FALSE, 0, name) : name \in RawNames}

Sources == WholeSources \cup CutSources \cup RawSources

TextOf(src) ==
    IF src.kind = "raw" THEN RawText(src.raw)
    ELSE LET whole == PayloadText(src.kind, Records(src.names), src.style)
         IN  IF src.cut > 0 THEN SubSeq(whole, 1, src.cut)
             ELSE IF src.wrap THEN ProseBefore \o whole \o ProseAfter
             ELSE whole

\* ------------------------------------------------------ the pipelines

VARIABLES
    src,        \* where the response text comes from
    response,   \* the text the generative service returned
    shape,      \* "question": _parse_quiz_response; "card": generate_flashcards
    pc,         \* the place of the invocation in its code
    json_str,   \* the local json_str
    data,       \* what json.loads returned (quiz_data / data)
    exc,        \* the exception being raised, "none" if none
    result,     \* the list returned to the caller
    stages,     \* the stages run so far, in order
    other,      \* the frame of a second invocation that is not running now
    sets,       \* data/flashcards/<set id>.json: the stored flashcard sets
    curricula,  \* curriculum_data/<curriculum id>.json: the stored curricula
    reply,      \* what the last request to the server was answered with
    clock       \* the requests served so far; datetime.now() grows with it

vars ==
    <<src, response, shape, pc, json_str, data, exc, result, stages, other,
      sets, curricula, reply, clock>>

\* The locals of the parsing pipelines, and the state of the server
pipeline == <<src, response, shape, pc, json_str, data, exc, result, stages, other>>
service == <<sets, curricula, reply, clock>>

\* No second invocation
Absent == [pc |-> "absent"]

\* The ids of the flashcard sets and of the curricula requests name
SetIds == {"set_v1", "set_v2"}
CurriculumIds == {"cur1", "cur2"}

\* A file that does not exist, and the reply before the first request
NoFile == [exists |-> FALSE]
NoReply == [op |-> "none", status |-> 0]

\* A curriculum as process_playlist saves it: no chapter completed
NewCurriculum(id, chapter_ids, now) ==
    [exists |-> TRUE, id |-> id,
     chapters |-> [k \in 1..Len(chapter_ids) |->
                      [id |-> chapter_ids[k], completed |-> FALSE, completed_at |-> ""]],
     total_chapters |-> Len(chapter_ids), completed_chapters |-> 0,
     progress_percentage |-> 0, created_at |-> now, last_accessed |-> now]

\* The server before its first request: no flashcard set is stored, one
\* curriculum of two chapters is
NoRequests ==
    /\ sets = [id \in SetIds |-> NoFile]
    /\ curricula = [id \in CurriculumIds |->
                        IF id = "cur1" THEN NewCurriculum(id, <<"ch1", "ch2">>, "T0") ELSE NoFile]
    /\ reply = NoReply
    /\ clock = 0

\* A handler for decoding errors only
OnlyDecodeErrors(e) == e = "JSONDecodeError"

\* "except Exception as e" of lines 286-288 and 352-355: every exception
\* the stages raise is an Exception
OuterCatches(e) ==
    e \in {"JSONDecodeError", "AttributeError", "TypeError", "ValueError"}

Init ==
    /\ src \in Sources
    /\ response = TextOf(src)
    /\ shape \in {"question", "card"}
    /\ pc = "start"
    /\ json_str = <<>>
    /\ data = PyNone
    /\ exc = "none"
    /\ result = <<>>
    /\ stages = <<>>
    /\ other = Absent
    /\ NoRequests

\* Lines 155-170: Boundary Locator
QLocate ==
    /\ shape = "question" /\ pc = "start"
    /\ stages' = Append(stages, "locate")
    /\ IF json_start(response) = 0
       THEN pc' = "fallback" /\ json_str' = json_str
       ELSE IF json_end(response) = 0
            THEN /\ pc' = "repair"
                 /\ json_str' = From(response, json_start(response))
            ELSE /\ pc' = "sanitize"
                 /\ json_str' = SubSeq(response, json_start(response), json_end(response))
    /\ UNCHANGED <<service, other, src, response, shape, data, exc, result>>

\* Lines 172-215: Repair Engine
QRepair ==
    /\ shape = "question" /\ pc = "repair"
    /\ stages' = Append(stages, "repair")
    /\ json_str' = Repair(json_str)
    /\ pc' = "sanitize"
    /\ UNCHANGED <<service, other, src, response, shape, data, exc, result>>

\* Lines 219-242: Sanitizer
QSanitize ==
    /\ shape = "question" /\ pc = "sanitize"
    /\ stages' = Append(stages, "sanitize")
    /\ json_str' = Sanitize(json_str)
    /\ pc' = "parse"
    /\ UNCHANGED <<service, other, src, response, shape, data, exc, result>>

\* Line 245: Strict Parser
QParse ==
    /\ shape = "question" /\ pc = "parse"
    /\ stages' = Append(stages, "parse")
    /\ LET parsed == Loads(json_str)
       IN  IF parsed.ok
           THEN data' = parsed.v /\ pc' = "validate" /\ exc' = exc
           ELSE data' = data /\ pc' = "except" /\ exc' = "JSONDecodeError"
    /\ UNCHANGED <<service, other, src, response, shape, json_str, result>>

\* Lines 246-280: Validator & Assembler
QValidate ==
    /\ shape = "question" /\ pc = "validate"
    /\ stages' = Append(stages, "validate")
    /\ LET v == Validate(data)
       IN  IF v.exc # "none"
           THEN pc' = "except" /\ exc' = v.exc /\ result' = result
           ELSE IF HasQuestions(v.questions)
                THEN pc' = "done" /\ exc' = exc /\ result' = v.questions
                ELSE pc' = "fallback" /\ exc' = exc /\ result' = result
    /\ UNCHANGED <<service, other, src, response, shape, json_str, data>>

\* Lines 282-288: the two handlers of the outer try; an exception neither
\* handles reaches the caller
QExcept ==
    /\ shape = "question" /\ pc = "except"
    /\ IF exc = "JSONDecodeError" \/ OuterCatches(exc)
       THEN pc' = "fallback" /\ exc' = "none"
       ELSE pc' = "raised" /\ exc' = exc
    /\ UNCHANGED <<service, other, src, response, shape, json_str, data, result, stages>>

\* return self._generate_better_fallback_quiz()
QFallback ==
    /\ shape = "question" /\ pc = "fallback"
    /\ stages' = Append(stages, "fallback")
    /\ result' = FallbackQuiz
    /\ pc' = "done"
    /\ UNCHANGED <<service, other, src, response, shape, json_str, data, exc>>

\* Lines 252-254 and 347-350: the object of the response, or the empty
\* list when there is none
CSearch ==
    /\ shape = "card" /\ pc = "start"
    /\ stages' = Append(stages, "search")
    /\ json_str' = SearchObject(response)
    /\ IF SearchObject(response) = <<>>
       THEN pc' = "done" /\ result' = <<>>
       ELSE pc' = "parse" /\ result' = result
    /\ UNCHANGED <<service, other, src, response, shape, data, exc>>

\* Lines 257-259: json.loads; "except json.JSONDecodeError" leads to the
\* cleaning strategies
CParse ==
    /\ shape = "card" /\ pc = "parse"
    /\ stages' = Append(stages, "parse")
    /\ LET parsed == Loads(json_str)
       IN  IF parsed.ok THEN data' = parsed.v /\ pc' = "build"
           ELSE data' = data /\ pc' = "fix"
    /\ UNCHANGED <<service, other, src, response, shape, json_str, exc, result>>

\* A pipeline that returns the empty list when the second json.loads fails
CFixGivesUp ==
    /\ shape = "card" /\ pc = "fix"
    /\ stages' = Append(stages, "fix")
    /\ LET parsed == Loads(FixJson(json_str))
       IN  IF parsed.ok THEN data' = parsed.v /\ pc' = "build"
           ELSE data' = data /\ pc' = "done"
    /\ UNCHANGED <<service, other, src, response, shape, json_str, exc, result>>

\* Lines 264-287: strategies 1-4 on a copy and the second json.loads
CFix ==
    /\ shape = "card" /\ pc = "fix"
    /\ stages' = Append(stages, "fix")
    /\ LET parsed == Loads(FixJson(json_str))
       IN  IF parsed.ok THEN data' = parsed.v /\ pc' = "build"
           ELSE data' = data /\ pc' = "regex"
    /\ UNCHANGED <<service, other, src, response, shape, json_str, exc, result>>

\* Lines 290-320: strategy 5 on json_str as extracted; the empty list when
\* nothing matches
CRegex ==
    /\ shape = "card" /\ pc = "regex"
    /\ stages' = Append(stages, "regex")
    /\ IF FindAll(json_str) # <<>>
       THEN data' = Rebuilt(FindAll(json_str)) /\ pc' = "build" /\ result' = result
       ELSE data' = data /\ pc' = "done" /\ result' = <<>>
    /\ UNCHANGED <<service, other, src, response, shape, json_str, exc>>

\* Lines 322-346: the cards of data
CBuild ==
    /\ shape = "card" /\ pc = "build"
    /\ stages' = Append(stages, "build")
    /\ LET b == Build(data)
       IN  IF b.exc # "none"
           THEN pc' = "except" /\ exc' = b.exc /\ result' = result
           ELSE pc' = "done" /\ exc' = exc /\ result' = b.flashcards
    /\ UNCHANGED <<service, other, src, response, shape, json_str, data>>

\* Lines 352-355: the handler of the outer try returns the empty list; an
\* exception it does not handle reaches the caller
CExcept ==
    /\ shape = "card" /\ pc = "except"
    /\ IF OuterCatches(exc)
       THEN pc' = "done" /\ exc' = "none" /\ result' = <<>>
       ELSE pc' = "raised" /\ exc' = exc /\ result' = result
    /\ UNCHANGED <<service, other, src, response, shape, json_str, data, stages>>

Next ==
    \/ QLocate
    \/ QRepair
    \/ QSanitize
    \/ QParse
    \/ QValidate
    \/ QExcept
    \/ QFallback
    \/ CSearch
    \/ CParse
    \/ CFix
    \/ CRegex
    \/ CBuild
    \/ CExcept

Spec == Init /\ [][Next]_vars

\* ------------------------------------------------- two invocations

\* The frame of the running invocation: the parameter and the local names
\* of the function (every name the stages assign is a local; none is an
\* attribute of self or a module global)
Frame ==
    [src |-> src, response |-> response, shape |-> shape, pc |-> pc,
     json_str |-> json_str, data |-> data, exc |-> exc, result |-> result,
     stages |-> stages]

\* A frame whose json_str lives outside the frame (an attribute of self):
\* the resumed invocation finds what the running one left there
ResumedSharingText(saved, running) == [saved EXCEPT !.json_str = running.json_str]

\* The frame an invocation resumes with: its own, as it left it
Resumed(saved, running) == saved

\* The frame of an invocation of the given shape about to start on a text
Started(source, kind) ==
    [src |-> source, response |-> TextOf(source), shape |-> kind, pc |-> "start",
     json_str |-> <<>>, data |-> PyNone, exc |-> "none", result |-> <<>>,
     stages |-> <<>>]

\* An invocation that has run a stage and has not returned
MidRun(f) == f.pc \notin {"start", "done", "raised"} /\ f.stages # <<>>

\* The history of an invocation that was resumed in mid-run
WasResumed(history) == \E i \in 1..Len(history) : history[i] = "resume"

\* The scheduler parks the running invocation at a stage boundary and
\* resumes the other one
Switch ==
    /\ other # Absent
    /\ other' = Frame
    /\ LET f == Resumed(other, Frame)
       IN  /\ src' = f.src /\ response' = f.response /\ shape' = f.shape
           /\ pc' = f.pc /\ json_str' = f.json_str /\ data' = f.data
           /\ exc' = f.exc /\ result' = f.result
           /\ stages' = IF MidRun(f) /\ ~WasResumed(f.stages)
                         THEN Append(f.stages, "resume")
                         ELSE f.stages
    /\ UNCHANGED service

\* The response texts of the two concurrent invocations
PairSources ==
    {Source("questions", <<"id1", "noid">>, "compact", FALSE, 0, ""),
     Source("questions", <<"range">>, "compact", FALSE, 0, ""),
     Source("questions", <<"id1", "id1">>, "indented", FALSE, 60, ""),
     Source("flashcards", <<"c1", "c2">>, "compact", FALSE, 0, ""),
     Source("flashcards", <<"cqtype">>, "compact", FALSE, 0, ""),
     Source("raw", <<>>, "", FALSE, 0, "cardquote"),
     Source("raw", <<>>, "", FALSE, 0, "notlist"),
     Source("raw", <<>>, "", FALSE, 0, "prose")}

PairInit ==
    /\ src \in PairSources
    /\ response = TextOf(src)
    /\ shape \in {"question", "card"}
    /\ pc = "start"
    /\ json_str = <<>>
    /\ data = PyNone
    /\ exc = "none"
    /\ result = <<>>
    /\ stages = <<>>
    /\ other \in {Started(source, kind) :
                     source \in PairSources, kind \in {"question", "card"}}
    /\ NoRequests

PairNext ==
    \/ QLocate
    \/ QRepair
    \/ QSanitize
    \/ QParse
    \/ QValidate
    \/ QExcept
    \/ QFallback
    \/ CSearch
    \/ CParse
    \/ CFix
    \/ CRegex
    \/ CBuild
    \/ CExcept
    \/ Switch

PairSpec == PairInit /\ [][PairNext]_vars

\* What _parse_quiz_response returns for a text when nothing else runs
QuizAlone(text) ==
    IF json_start(text) = 0 THEN FallbackQuiz
    ELSE LET located == IF json_end(text) = 0
                        THEN Repair(From(text, json_start(text)))
                        ELSE SubSeq(text, json_start(text), json_end(text))
             parsed == Loads(Sanitize(located))
         IN  IF ~parsed.ok THEN FallbackQuiz
             ELSE LET v == Validate(parsed.v)
                  IN  IF v.exc = "none" /\ HasQuestions(v.questions)
                      THEN v.questions
                      ELSE FallbackQuiz

\* What generate_flashcards makes of a response when nothing else runs
CardsAlone(text) ==
    LET found == SearchObject(text)
        first == Loads(found)
        second == Loads(FixJson(found))
        built(d) == IF Build(d).exc = "none" THEN Build(d).flashcards ELSE <<>>
    IN  IF found = <<>> THEN <<>>
        ELSE IF first.ok THEN built(first.v)
        ELSE IF second.ok THEN built(second.v)
        ELSE IF FindAll(found) # <<>> THEN built(Rebuilt(FindAll(found)))
        ELSE <<>>

Alone(kind, text) == IF kind = "question" THEN QuizAlone(text) ELSE CardsAlone(text)

\* ------------------------------------------------------- the server

\* Bound of the model: the requests the server answers in one behaviour
MaxRequests == 3

\* datetime.datetime.now().isoformat() while request number n is served
Isoformat(n) == "T" \o ToString(n)
Now == Isoformat(clock + 1)

\* The number of cards of a list that have the given status
WithStatus(cards, status) ==
    Cardinality({k \in 1..Len(cards) : cards[k].status = status})

\* FlashcardSet(...): __post_init__ sets the three counters from the cards.
\* (The title, the description and the video fields are texts no
\* operation reads.)
FlashcardSet(id, cards, created_at) ==
    [exists |-> TRUE, id |-> id, cards |-> cards, created_at |-> created_at,
     total_cards |-> Len(cards),
     learned_cards |-> WithStatus(cards, "learned"),
     learning_cards |-> WithStatus(cards, "learning")]

\* save_flashcard_set: the file of the set holds the fields of the object
SaveFlashcardSet(store, flashcard_set) ==
    [store EXCEPT ![flashcard_set.id] = flashcard_set]

\* load_flashcard_set: None when there is no file, else a FlashcardSet
\* built from the stored id, cards and created_at
LoadFlashcardSet(store, set_id) ==
    IF ~store[set_id].exists THEN NoFile
    ELSE FlashcardSet(store[set_id].id, store[set_id].cards, store[set_id].created_at)

\* The videos a request can name: what extract_video_id, get_video_info,
\* get_transcript and is_educational_content make of the URL
Video(id, url_ok, raises, transcript_ok, educational) ==
    [id |-> id, url_ok |-> url_ok, raises |-> raises, transcript_ok |-> transcript_ok,
     educational |-> educational]
Videos ==
    {Video("", FALSE, FALSE, FALSE, FALSE), Video("v0", TRUE, TRUE, FALSE, FALSE),
     Video("v0", TRUE, FALSE, FALSE, FALSE), Video("v0", TRUE, FALSE, TRUE, FALSE),
     Video("v1", TRUE, FALSE, TRUE, TRUE)}

\* The texts the language model answers the flashcard prompt with
VideoTexts ==
    {Source("flashcards", <<"c1", "c2">>, "compact", FALSE, 0, ""),
     Source("flashcards", <<"cblank", "cid">>, "compact", FALSE, 0, ""),
     Source("flashcards", <<"cblank">>, "compact", FALSE, 0, ""),
     Source("flashcards", <<"cqtype">>, "compact", FALSE, 0, ""),
     Source("raw", <<>>, "", FALSE, 0, "cardquote"),
     Source("raw", <<>>, "", FALSE, 0, "prose")}

\* A result of process_youtube_url without a flashcard set
Failure(error) == [success |-> FALSE, error |-> error, flashcard_set |-> NoFile]

\* Lines 359-395 of process_youtube_url: the error the video is refused
\* with before any flashcard is generated, "" when it is not refused
Refusal(video) ==
    IF ~video.url_ok THEN "Invalid YouTube URL format"
    ELSE IF video.raises THEN "Error processing video"
    ELSE IF ~video.transcript_ok THEN "Video transcript too short or unavailable"
    ELSE IF ~video.educational THEN "not educational"
    ELSE ""

\* A result that wraps whatever list was generated
UrlResultUnchecked(video, flashcards) ==
    [success |-> TRUE, error |-> "",
     flashcard_set |-> FlashcardSet("set_" \o video.id, flashcards, "")]

\* Lines 397-426 of process_youtube_url: the result for the list
\* generate_flashcards returned
UrlResult(video, flashcards) ==
    IF flashcards = <<>> THEN Failure("Failed to generate flashcards from content")
    ELSE [success |-> TRUE, error |-> "",
          flashcard_set |-> FlashcardSet("set_" \o video.id, flashcards, "")]

\* The server is between two requests
Idle == pc = "idle"

\* POST /youtube/process, up to the call of generate_flashcards: a refused
\* video is answered at once; otherwise generate_flashcards starts on the
\* text of the language model, and no other request is served meanwhile
ProcessYoutubeUrl ==
    /\ Idle /\ clock < MaxRequests
    /\ \E video \in Videos, source \in VideoTexts :
          LET request == [video |-> video, source |-> source]
          IN  IF Refusal(video) # ""
              THEN /\ reply' = [op |-> "process_youtube_video", status |-> 200,
                                 request |-> request, success |-> FALSE,
                                 error |-> Refusal(video), flashcard_set |-> NoFile]
                   /\ clock' = clock + 1
                   /\ UNCHANGED pipeline
              ELSE /\ reply' = [op |-> "generate_flashcards", status |-> 0,
                                 request |-> request]
                   /\ src' = source /\ response' = TextOf(source) /\ shape' = "card"
                   /\ pc' = "start" /\ json_str' = <<>> /\ data' = PyNone
                   /\ exc' = "none" /\ result' = <<>> /\ stages' = <<>>
                   /\ UNCHANGED <<other, clock>>
    /\ UNCHANGED <<sets, curricula>>

\* POST /youtube/process, from the return of generate_flashcards on: a
\* failure is passed on; a flashcard set is stamped with the time, saved
\* and returned
ProcessYoutubeVideo ==
    /\ reply.op = "generate_flashcards" /\ pc \in {"done", "raised"}
    /\ LET r == IF pc = "raised" THEN Failure("Error processing video")
                ELSE UrlResult(reply.request.video, result)
           made == r.flashcard_set
           stamped == [made EXCEPT !.created_at = Now,
                                   !.cards = [k \in 1..Len(made.cards) |->
                                                 [made.cards[k] EXCEPT !.created_at = Now]]]
       IN  IF ~r.success
           THEN /\ sets' = sets
                /\ reply' = [op |-> "process_youtube_video", status |-> 200,
                              request |-> reply.request, success |-> FALSE,
                              error |-> r.error, flashcard_set |-> NoFile]
           ELSE /\ sets' = SaveFlashcardSet(sets, stamped)
                /\ reply' = [op |-> "process_youtube_video", status |-> 200,
                              request |-> reply.request, success |-> TRUE,
                              error |-> "", flashcard_set |-> stamped]
    /\ pc' = "idle"
    /\ clock' = clock + 1
    /\ UNCHANGED <<curricula, src, response, shape, json_str, data, exc, result, stages, other>>

\* "except Exception as e: raise HTTPException(status_code=500, ...)" of
\* the flashcard endpoints: HTTPException is an Exception, so the 404 the
\* try block raises is answered as 500
ExceptException(op, raised, request) ==
    [op |-> op, status |-> 500, raised |-> raised, request |-> request]

\* GET /flashcards/sets/{set_id}
GetFlashcardSet ==
    /\ Idle /\ clock < MaxRequests
    /\ \E set_id \in SetIds :
          LET flashcard_set == LoadFlashcardSet(sets, set_id)
              request == [set_id |-> set_id]
          IN  reply' = IF ~flashcard_set.exists
                       THEN ExceptException("get_flashcard_set", 404, request)
                       ELSE [op |-> "get_flashcard_set", status |-> 200,
                             request |-> request, flashcard_set |-> flashcard_set]
    /\ clock' = clock + 1
    /\ UNCHANGED <<sets, curricula, pipeline>>

\* The card ids and the statuses a request can name
CardIds == {"card_001", "card_002", "card_009"}
Statuses == {"learning", "learned", "review"}

\* Index of the first card with the id, 0 if there is none
FirstCard(cards, card_id) == FirstIn({k \in 1..Len(cards) : cards[k].id = card_id})

\* An update that does not count the review
ReviewedUncounted(flashcard_set, k, status, now) ==
    LET cards == [flashcard_set.cards EXCEPT ![k] =
                     [@ EXCEPT !.status = status, !.last_reviewed = now]]
    IN  [flashcard_set EXCEPT !.cards = cards,
                              !.learned_cards = WithStatus(cards, "learned"),
                              !.learning_cards = WithStatus(cards, "learning")]

\* Lines 822-838: card k gets the status, one more review and the time;
\* learned_cards and learning_cards are counted again
Reviewed(flashcard_set, k, status, now) ==
    LET cards == [flashcard_set.cards EXCEPT ![k] =
                     [@ EXCEPT !.status = status, !.review_count = @ + 1,
                               !.last_reviewed = now]]
    IN  [flashcard_set EXCEPT !.cards = cards,
                              !.learned_cards = WithStatus(cards, "learned"),
                              !.learning_cards = WithStatus(cards, "learning")]

\* PUT /flashcards/sets/{set_id}/cards/{card_id}
UpdateFlashcardStatus ==
    /\ Idle /\ clock < MaxRequests
    /\ \E set_id \in SetIds, card_id \in CardIds, status \in Statuses :
          LET flashcard_set == LoadFlashcardSet(sets, set_id)
              request == [set_id |-> set_id, card_id |-> card_id, status |-> status]
              k == FirstCard(flashcard_set.cards, card_id)
              updated == Reviewed(flashcard_set, k, status, Now)
          IN  IF ~flashcard_set.exists \/ k = 0
              THEN /\ sets' = sets
                   /\ reply' = ExceptException("update_flashcard_status", 404, request)
              ELSE /\ sets' = SaveFlashcardSet(sets, updated)
                   /\ reply' = [op |-> "update_flashcard_status", status |-> 200,
                                 request |-> request, success |-> TRUE,
                                 set_stats |-> [total_cards |-> updated.total_cards,
                                                learned_cards |-> updated.learned_cards,
                                                learning_cards |-> updated.learning_cards]]
    /\ clock' = clock + 1
    /\ UNCHANGED <<curricula, pipeline>>

\* DELETE /flashcards/sets/{set_id}
DeleteFlashcardSet ==
    /\ Idle /\ clock < MaxRequests
    /\ \E set_id \in SetIds :
          LET request == [set_id |-> set_id]
          IN  IF ~sets[set_id].exists
              THEN /\ sets' = sets
                   /\ reply' = ExceptException("delete_flashcard_set", 404, request)
              ELSE /\ sets' = [sets EXCEPT ![set_id] = NoFile]
                   /\ reply' = [op |-> "delete_flashcard_set", status |-> 200,
                                 request |-> request, success |-> TRUE]
    /\ clock' = clock + 1
    /\ UNCHANGED <<curricula, pipeline>>

\* load_curriculum: None when there is no file, else the PlaylistCurriculum
\* of the stored fields; __post_init__ sets the three counters from the
\* chapters
LoadCurriculum(store, curriculum_id) ==
    IF ~store[curriculum_id].exists THEN NoFile
    ELSE LET stored == store[curriculum_id]
             done == Cardinality({k \in 1..Len(stored.chapters) :
                                     stored.chapters[k].completed})
         IN  [stored EXCEPT !.total_chapters = Len(stored.chapters),
                            !.completed_chapters = done,
                            !.progress_percentage =
                                IF Len(stored.chapters) > 0
                                THEN (done * 100) \div Len(stored.chapters) ELSE 0]

\* Lines 496-508 of update_chapter_progress: the first chapter with the id,
\* if there is one, gets the flag and the time; the counters and
\* last_accessed are set in any case.  (The percentage is a float in the
\* code; it is whole for the curricula of the model.)
ChapterMarked(curriculum, chapter_id, completed, now) ==
    LET k == FirstIn({j \in 1..Len(curriculum.chapters) :
                         curriculum.chapters[j].id = chapter_id})
        chapters == IF k = 0 THEN curriculum.chapters
                    ELSE [curriculum.chapters EXCEPT ![k] =
                             [@ EXCEPT !.completed = completed,
                                       !.completed_at = IF completed THEN now ELSE ""]]
        done == Cardinality({j \in 1..Len(chapters) : chapters[j].completed})
    IN  [curriculum EXCEPT !.chapters = chapters,
                           !.completed_chapters = done,
                           !.progress_percentage =
                               IF curriculum.total_chapters > 0
                               THEN (done * 100) \div curriculum.total_chapters ELSE 0,
                           !.last_accessed = now]

\* The chapter ids a request can name
ChapterIds == {"ch1", "ch2", "ch9"}

\* POST /playlist/curriculum/{curriculum_id}/chapter/{chapter_id}/progress:
\* update_chapter_progress returns False when there is no curriculum, and
\* saves and returns True otherwise; False is answered with 404, which
\* "except HTTPException: raise" passes on
UpdateChapterProgress ==
    /\ Idle /\ clock < MaxRequests
    /\ \E curriculum_id \in CurriculumIds, chapter_id \in ChapterIds, completed \in BOOLEAN :
          LET curriculum == LoadCurriculum(curricula, curriculum_id)
              request == [curriculum_id |-> curriculum_id, chapter_id |-> chapter_id,
                          completed |-> completed]
          IN  IF ~curriculum.exists
              THEN /\ curricula' = curricula
                   /\ reply' = [op |-> "update_chapter_progress", status |-> 404,
                                 request |-> request, success |-> FALSE]
              ELSE /\ curricula' =
                          [curricula EXCEPT ![curriculum_id] =
                              ChapterMarked(curriculum, chapter_id, completed, Now)]
                   /\ reply' = [op |-> "update_chapter_progress", status |-> 200,
                                 request |-> request, success |-> TRUE]
    /\ clock' = clock + 1
    /\ UNCHANGED <<sets, pipeline>>

\* The methods class LLMClient defines
LLMClientMethods ==
    {"__init__", "generate", "generate_lesson_content", "assess_learning_progress",
     "_get_language_instruction"}

\* The texts the language model answers the quiz prompt with
QuizTexts ==
    {Source("questions", <<"id1", "id2">>, "compact", FALSE, 0, ""),
     Source("questions", <<"noid">>, "compact", TRUE, 0, ""),
     Source("raw", <<>>, "", FALSE, 0, "prose")}

\* PersonalizedQuizGenerator.generate_chapter_quiz for the text the language
\* model would answer with: line 59 looks up generate_quiz on the
\* LLMClient, lines 68-71 return what _parse_quiz_response makes of the text
GenerateQuiz(text) ==
    IF "generate_quiz" \notin LLMClientMethods
    THEN [raised |-> "AttributeError", questions |-> <<>>]
    ELSE [raised |-> "none", questions |-> QuizAlone(text)]

\* POST /generate-quiz: the questions, or 500 for any exception
GenerateChapterQuiz ==
    /\ Idle /\ clock < MaxRequests
    /\ \E source \in QuizTexts :
          LET r == GenerateQuiz(TextOf(source))
              request == [source |-> source]
          IN  reply' = IF r.raised # "none"
                       THEN [op |-> "generate_chapter_quiz", status |-> 500,
                             request |-> request, raised |-> r.raised, questions |-> <<>>]
                       ELSE [op |-> "generate_chapter_quiz", status |-> 200,
                             request |-> request, raised |-> "none",
                             questions |-> r.questions]
    /\ clock' = clock + 1
    /\ UNCHANGED <<sets, curricula, pipeline>>

\* Bounds of the model: the questions and the answers of a submission
MaxQuestions == 2
MaxAnswers == 3

\* The questions of a submitted quiz (the fields evaluate_quiz_results
\* reads) and the answers of the user
SubmittedQuestions ==
    {[correct_answer |-> 0, concepts |-> <<"loops">>],
     [correct_answer |-> 1, concepts |-> <<"types">>]}
Quizzes == UNION {[1..n -> SubmittedQuestions] : n \in 0..MaxQuestions}
UserAnswers == UNION {[1..n -> 0..1] : n \in 0..MaxAnswers}

\* The loop over zip(questions, user_answers) from pair i on
RECURSIVE EvaluateFrom(_, _, _, _, _, _)
EvaluateFrom(questions, user_answers, i, correct_count, weak, strong) ==
    IF i > Len(questions) \/ i > Len(user_answers)
    THEN [correct_count |-> correct_count, weak_concepts |-> weak,
          strong_concepts |-> strong]
    ELSE IF user_answers[i] = questions[i].correct_answer
         THEN EvaluateFrom(questions, user_answers, i + 1, correct_count + 1, weak,
                           strong \o questions[i].concepts)
         ELSE EvaluateFrom(questions, user_answers, i + 1, correct_count,
                           weak \o questions[i].concepts, strong)

\* The elements of a list, as list(set(...)) keeps them
SetOf(list) == {list[k] : k \in 1..Len(list)}

\* An evaluation whose total is the number of answered questions
EvaluateAnsweredOnly(questions, user_answers) ==
    LET r == EvaluateFrom(questions, user_answers, 1, 0, <<>>, <<>>)
        answered == IF Len(user_answers) < Len(questions)
                    THEN Len(user_answers) ELSE Len(questions)
    IN  [score |-> IF questions # <<>> THEN <<r.correct_count, Len(questions)>>
                   ELSE <<0, 1>>,
         total_questions |-> answered,
         correct_answers |-> r.correct_count,
         weak_concepts |-> SetOf(r.weak_concepts),
         strong_concepts |-> SetOf(r.strong_concepts)]

\* evaluate_quiz_results.  score is the quotient correct_count /
\* len(questions), kept as the pair of the two numbers, 0 for no question;
\* the recommendations are texts chosen by the score.
EvaluateQuizResults(questions, user_answers) ==
    LET r == EvaluateFrom(questions, user_answers, 1, 0, <<>>, <<>>)
    IN  [score |-> IF questions # <<>> THEN <<r.correct_count, Len(questions)>>
                   ELSE <<0, 1>>,
         total_questions |-> Len(questions),
         correct_answers |-> r.correct_count,
         weak_concepts |-> SetOf(r.weak_concepts),
         strong_concepts |-> SetOf(r.strong_concepts)]

\* "Excellent" from 0.9, "Good" from 0.7, "Fair" from 0.5
PerformanceLevel(score) ==
    IF 10 * score[1] >= 9 * score[2] THEN "Excellent"
    ELSE IF 10 * score[1] >= 7 * score[2] THEN "Good"
    ELSE IF 10 * score[1] >= 5 * score[2] THEN "Fair"
    ELSE "Needs Improvement"

\* POST /submit-quiz
SubmitQuizAnswers ==
    /\ Idle /\ clock < MaxRequests
    /\ \E questions \in Quizzes, user_answers \in UserAnswers :
          LET results == EvaluateQuizResults(questions, user_answers)
          IN  reply' = [op |-> "submit_quiz_answers", status |-> 200,
                        request |-> [questions |-> questions,
                                     user_answers |-> user_answers],
                        results |-> results,
                        performance_level |-> PerformanceLevel(results.score)]
    /\ clock' = clock + 1
    /\ UNCHANGED <<sets, curricula, pipeline>>

\* The server with its stores: the flashcard and the curriculum endpoints
StoreInit ==
    /\ src = Source("raw", <<>>, "", FALSE, 0, "empty")
    /\ response = TextOf(src)
    /\ shape = "card"
    /\ pc = "idle"
    /\ json_str = <<>>
    /\ data = PyNone
    /\ exc = "none"
    /\ result = <<>>
    /\ stages = <<>>
    /\ other = Absent
    /\ NoRequests

StoreNext ==
    \/ ProcessYoutubeUrl
    \/ CSearch
    \/ CParse
    \/ CFix
    \/ CRegex
    \/ CBuild
    \/ CExcept
    \/ ProcessYoutubeVideo
    \/ GetFlashcardSet
    \/ UpdateFlashcardStatus
    \/ DeleteFlashcardSet
    \/ UpdateChapterProgress

StoreSpec == StoreInit /\ [][StoreNext]_vars

\* The quiz endpoints, which keep nothing between requests
QuizNext ==
    \/ GenerateChapterQuiz
    \/ SubmitQuizAnswers

QuizSpec == StoreInit /\ [][QuizNext]_vars

\* ------------------------------------------------------------ claims

Done == pc = "done"
IsQuiz == shape = "question"
IsCard == shape = "card"
Ran(stage) == \E k \in 1..Len(stages) : stages[k] = stage

\* The records of the payload the response was written from
Payload == Records(src.names)
WholeQuizPayload == src.kind = "questions" /\ src.cut = 0
WholeCardPayload == src.kind = "flashcards" /\ src.cut = 0

\* The response ends inside the last record of its payload: the closing
\* brace of that record is missing
CutInRecord ==
    /\ src.cut > 0
    /\ src.cut >= LastRecordStart(src.kind, Payload, src.style)
    /\ src.cut < Len(PayloadText(src.kind, Payload, src.style))
                    - (IF src.style = "indented" THEN 3 ELSE 2)

\* The QuestionRecord field constraints on the fields question, options,
\* correct_answer
FieldsValid(question, options, correct_answer) ==
    /\ question.t = "str" /\ question.v # <<>>
    /\ options.t = "list" /\ Len(options.v) >= 2
    /\ \A k \in 1..Len(options.v) : options.v[k].t = "str" /\ options.v[k].v # <<>>
    /\ correct_answer.t = "int"
    /\ 0 <= correct_answer.v /\ correct_answer.v < Len(options.v)

\* ... on a returned QuizQuestion
SchemaValid(q) == FieldsValid(PyStr(q.question), q.options, PyInt(q.correct_answer))

\* ... on a record of the payload; strictly: its question is not blank either
RecordValid(x) ==
    /\ x.t = "dict"
    /\ FieldsValid(DictGet(x.v, <<"question">>, PyNone), DictGet(x.v, <<"options">>, PyNone),
                   DictGet(x.v, <<"correct_answer">>, PyNone))

RecordStrictlyValid(x) ==
    RecordValid(x) /\ Strip(DictGet(x.v, <<"question">>, PyNone).v) # <<>>

\* The returned question q is built from record x, the k-th of the payload
BuiltFrom(q, x, k) ==
    /\ q.options = DictGet(x.v, <<"options">>, PyNone)
    /\ PyInt(q.correct_answer) = DictGet(x.v, <<"correct_answer">>, PyNone)
    /\ q.id = DictGet(x.v, <<"id">>, PyStr(<<"q" \o ToString(k)>>))

\* The returned card c is built from record x of the payload
CardBuiltFrom(c, x) ==
    /\ x.t = "dict"
    /\ PyStr(c.question) = DictGet(x.v, <<"question">>, PyNone)
    /\ PyStr(c.answer) = DictGet(x.v, <<"answer">>, PyNone)

\* C1: whatever the response text, neither pipeline lets an exception
\* reach its caller: every error a stage raises is absorbed by a handler
C1_NeverRaises == pc # "raised"

C1_Witness ==
    /\ IsQuiz /\ Done /\ src.raw = "notlist"
    /\ Ran("validate") /\ Ran("fallback") /\ result = FallbackQuiz

\* C2: the list _parse_quiz_response returns holds at least one record
C2_QuizNonEmpty == IsQuiz /\ Done => Len(result) >= 1

C2_Witness ==
    /\ IsQuiz /\ Done /\ WholeQuizPayload /\ src.names = <<"noopts", "oneopt">>
    /\ Ran("validate") /\ Len(result) = 7

CardKept(x) ==
    /\ x.t = "dict"
    /\ DictGet(x.v, <<"question">>, PyStr(<<>>)).t = "str"
    /\ DictGet(x.v, <<"answer">>, PyStr(<<>>)).t = "str"
    /\ Strip(DictGet(x.v, <<"question">>, PyStr(<<>>)).v) # <<>>
    /\ Strip(DictGet(x.v, <<"answer">>, PyStr(<<>>)).v) # <<>>

CardRaises(x) ==
    /\ x.t = "dict"
    /\ \/ DictGet(x.v, <<"question">>, PyStr(<<>>)).t # "str"
       \/ DictGet(x.v, <<"answer">>, PyStr(<<>>)).t # "str"

C4_SchemaValid == IsQuiz /\ Done => \A k \in 1..Len(result) : SchemaValid(result[k])

\* C5: the ids of the records one invocation returns are pairwise distinct
C5_IdsDistinct ==
    IsQuiz /\ Done =>
        \A j, k \in 1..Len(result) : j # k => result[j].id # result[k].id

\* C6: a response holding a balanced payload of N >= 1 schema-valid
\* records, with or without prose around it, yields exactly N records, the
\* i-th built from the i-th record of the payload
C6_AllRecordsInOrder ==
    (/\ IsQuiz /\ Done /\ WholeQuizPayload /\ Len(Payload) >= 1
     /\ \A k \in 1..Len(Payload) : RecordStrictlyValid(Payload[k]))
    => /\ Len(result) = Len(Payload)
       /\ \A k \in 1..Len(Payload) : BuiltFrom(result[k], Payload[k], k)

\* C7: a response cut off inside the N-th record of its payload yields
\* exactly the N-1 complete records, in source order
C7_CompleteRecordsKept ==
    (/\ IsQuiz /\ Done /\ src.kind = "questions" /\ CutInRecord /\ Len(Payload) >= 2)
    => /\ Len(result) = Len(Payload) - 1
       /\ \A k \in 1..(Len(Payload) - 1) : BuiltFrom(result[k], Payload[k], k)

\* C8: no returned record is built from the record the end of the input
\* cut off: the result is the fallback set, or holds only records built
\* from the complete records before it
C8_NoPartialRecord ==
    (Done /\ CutInRecord) =>
        \/ IsQuiz /\ result = FallbackQuiz
        \/ /\ Len(result) <= Len(Payload) - 1
           /\ \A k \in 1..Len(result) : \E j \in 1..(Len(Payload) - 1) :
                 IF IsQuiz THEN BuiltFrom(result[k], Payload[j], j)
                 ELSE CardBuiltFrom(result[k], Payload[j])

C8_Witness ==
    /\ IsQuiz /\ Done /\ src.kind = "questions" /\ CutInRecord /\ Len(Payload) = 2
    /\ Ran("repair") /\ Ran("parse") /\ result = FallbackQuiz

\* No stage can yield a valid record from the response: it is empty, prose,
\* or a payload none of whose records is schema-valid
NoValidRecord ==
    \/ src.kind = "raw" /\ src.raw \in {"empty", "prose", "notlist", "nokey", "garbage"}
    \/ WholeQuizPayload /\ \A k \in 1..Len(Payload) : ~RecordValid(Payload[k])

\* C9: when no stage yields a valid record, _parse_quiz_response returns
\* exactly the fallback set fallback1..fallback7
C9_FallbackWhenNothingValid == (IsQuiz /\ Done /\ NoValidRecord) => result = FallbackQuiz

\* The field markers of the response that match the regex fallback pattern
MarkerRecords == FindAll(response)

PayloadParsed ==
    \/ IsQuiz /\ WholeQuizPayload /\ Ran("validate")
    \/ IsCard /\ WholeCardPayload /\ Ran("build") /\ ~Ran("regex")

\* Record k of the payload is valid for the pipeline that runs
ValidAt(k) ==
    IF IsQuiz THEN RecordStrictlyValid(Payload[k]) ELSE CardKept(Payload[k])

\* result[j] is built from record k of the payload
ReturnedAt(j, k) ==
    IF IsQuiz THEN BuiltFrom(result[j], Payload[k], k)
    ELSE CardBuiltFrom(result[j], Payload[k]) /\ result[j].id = CardId(k - 1)

\* C11: of a parsed payload with valid and invalid records every valid
\* record is returned, in source order; an invalid record, also one with a
\* field of the wrong type, is dropped on its own
C11_ValidRecordsSurvive ==
    (Done /\ PayloadParsed) =>
        /\ \A k \in 1..Len(Payload) :
              ValidAt(k) => \E j \in 1..Len(result) : ReturnedAt(j, k)
        /\ \A k1, k2 \in 1..Len(Payload) :
              (ValidAt(k1) /\ ValidAt(k2) /\ k1 < k2) =>
                  \E j1, j2 \in 1..Len(result) :
                      j1 < j2 /\ ReturnedAt(j1, k1) /\ ReturnedAt(j2, k2)

\* The record x of the payload has the eight fields of a QuestionRecord
FullRecord(x) ==
    /\ x.t = "dict"
    /\ \A key \in {"id", "question", "options", "correct_answer", "explanation",
                   "difficulty", "topic", "concepts"} :
          \E k \in 1..Len(x.v) : x.v[k][1] = <<key>>

\* The QuestionRecord the record x of the payload was serialized from
Original(x) ==
    [id |-> DictGet(x.v, <<"id">>, PyNone),
     question |-> DictGet(x.v, <<"question">>, PyNone).v,
     options |-> DictGet(x.v, <<"options">>, PyNone),
     correct_answer |-> DictGet(x.v, <<"correct_answer">>, PyNone).v,
     explanation |-> DictGet(x.v, <<"explanation">>, PyNone).v,
     difficulty |-> DictGet(x.v, <<"difficulty">>, PyNone),
     topic |-> DictGet(x.v, <<"topic">>, PyNone),
     concepts |-> DictGet(x.v, <<"concepts">>, PyNone)]

\* C12: a payload serialized from schema-valid QuestionRecords yields
\* records equal to the originals field for field, in the same order, also
\* when their texts hold braces, angle brackets, a comma before a closing
\* delimiter or a symbol the sanitizer rewrites
C12_RoundTrip ==
    (/\ IsQuiz /\ Done /\ WholeQuizPayload /\ ~src.wrap /\ Len(Payload) >= 1
     /\ \A k \in 1..Len(Payload) :
           FullRecord(Payload[k]) /\ RecordStrictlyValid(Payload[k]))
    => result = [k \in 1..Len(Payload) |-> Original(Payload[k])]

\* C13: the sanitizer is idempotent: sanitizing the text it returned
\* changes nothing, also after repeated commas before a closing delimiter
\* and after a symbol replacement that wrote a '<'
C13_SanitizeIdempotent ==
    (IsQuiz /\ Ran("sanitize")) => Sanitize(json_str) = json_str

\* The response is the payload without its last lexeme, the outermost '}'
LastBraceCut ==
    src.cut > 0 /\ src.cut = Len(PayloadText(src.kind, Payload, src.style)) - 1

\* C14: a balanced payload of N >= 1 valid records that lost only its
\* final '}' is repaired and yields the same N records as the whole
\* payload, not the fallback set
C14_LastBraceRepaired ==
    (/\ IsQuiz /\ Done /\ src.kind = "questions" /\ LastBraceCut
     /\ \A k \in 1..Len(Payload) : RecordStrictlyValid(Payload[k]))
    => /\ Len(result) = Len(Payload)
       /\ \A k \in 1..Len(Payload) : BuiltFrom(result[k], Payload[k], k)
       /\ result # FallbackQuiz

Difficulties == {PyStr(<<"easy">>), PyStr(<<"medium">>), PyStr(<<"hard">>)}

\* C15: every returned question has difficulty easy, medium or hard (a
\* record with no or another difficulty is returned with medium), and a
\* record with no topic is returned with topic general
C15_DifficultyInEnum ==
    (IsQuiz /\ Done) =>
        /\ \A j \in 1..Len(result) : result[j].difficulty \in Difficulties
        /\ (WholeQuizPayload /\ result # FallbackQuiz /\ Len(result) = Len(Payload)) =>
              \A k \in 1..Len(Payload) :
                  (Payload[k].t = "dict"
                   /\ DictGet(Payload[k].v, <<"topic">>, PyNone) = PyNone)
                  => result[k].topic = PyStr(<<"general">>)

\* C16: every Flashcard generate_flashcards returns has a question and an
\* answer that are trimmed and not empty, on the strict-parse path and on
\* the regex path alike
C16_CardTextsNonEmpty ==
    (IsCard /\ Done) =>
        \A j \in 1..Len(result) :
            /\ result[j].question # <<>> /\ Strip(result[j].question) = result[j].question
            /\ result[j].answer # <<>> /\ Strip(result[j].answer) = result[j].answer

C16_Witness ==
    /\ IsCard /\ Done /\ src.raw = "cardquoteblank" /\ Ran("regex") /\ Ran("build")
    /\ Len(result) = 1 /\ result[1].question = <<"R">>

\* C17: two invocations interleaved at any stage boundary each return what
\* they return when they run alone, the running one and the parked one
C17_InterleavedAsAlone ==
    /\ Done => result = Alone(shape, response)
    /\ other.pc = "done" => other.result = Alone(other.shape, other.response)

\* Both invocations were parked in mid-run, resumed, and returned different
\* non-empty lists
C17_Witness ==
    /\ Done /\ other.pc = "done"
    /\ WasResumed(stages) /\ WasResumed(other.stages)
    /\ result # <<>> /\ other.result # <<>> /\ result # other.result
    /\ result = Alone(shape, response)

\* C18: when the response holds a whole payload, alone or between prose,
\* the Boundary Locator finds it balanced and the located range is exactly
\* that payload, whatever its strings contain
C18_LocatesPayload ==
    (IsQuiz /\ src.kind # "raw" /\ src.cut = 0 /\ stages = <<"locate">>)
        => /\ pc = "sanitize"
           /\ json_str = PayloadText(src.kind, Payload, src.style)

\* The delimiters of a text that stand outside its string literals, in order
OutsideString(s, i) ==
    Cardinality({j \in 1..(i - 1) : s[j] = QT /\ ~Escaped(s, j)}) % 2 = 0
StructuralDelimiters(s) ==
    LET at == [i \in 1..Len(s) |-> IF s[i] \in {LB, RB, LK, RK} /\ OutsideString(s, i)
                                    THEN s[i] ELSE SP]
    IN  SelectSeq(at, LAMBDA c : c # SP)

\* Every closer of d from k on closes the innermost open delimiter, and
\* nothing is left open at the end
RECURSIVE ProperlyNested(_, _, _)
ProperlyNested(d, k, open) ==
    IF k > Len(d) THEN open = <<>>
    ELSE IF d[k] \in {LB, LK} THEN ProperlyNested(d, k + 1, Append(open, d[k]))
    ELSE /\ open # <<>>
         /\ open[Len(open)] = (IF d[k] = RB THEN LB ELSE LK)
         /\ ProperlyNested(d, k + 1, SubSeq(open, 1, Len(open) - 1))

SyntacticallyClosed(s) ==
    ~InStringAtEnd(s) /\ ProperlyNested(StructuralDelimiters(s), 1, <<>>)

\* C19: for a payload cut off at any point, the text the Repair Engine
\* hands on ends outside any string and closes every brace and bracket
\* opened outside strings in nesting order
C19_RepairCloses ==
    (IsQuiz /\ src.cut > 0 /\ pc = "sanitize" /\ stages = <<"locate", "repair">>)
        => SyntacticallyClosed(json_str)

\* The strict parser rejected the text the pipeline prepared for it: the
\* sanitized text in the question pipeline, the extracted text both as it
\* is and after cleaning in the card pipeline
StrictRejected ==
    \/ IsQuiz /\ Ran("parse") /\ ~Loads(json_str).ok
    \/ IsCard /\ Ran("fix") /\ ~Loads(FixJson(json_str)).ok

\* Stage a was run, and before any run of stage b
RanBefore(a, b) ==
    \E i \in 1..Len(stages) :
        stages[i] = a /\ \A j \in 1..i : stages[j] # b

\* The cards the regex extractor yields from the extracted text
RegexCards ==
    LET b == Build(Rebuilt(FindAll(json_str)))
    IN  IF FindAll(json_str) # <<>> /\ b.exc = "none" THEN b.flashcards ELSE <<>>

SmartQuotes == {LDQ, RDQ, LSQ, RSQ}

\* C21: the sanitized text holds no typographic quotation mark or
\* apostrophe
C21_NoSmartQuotes ==
    (IsQuiz /\ Ran("sanitize"))
        => \A i \in 1..Len(json_str) : json_str[i] \notin SmartQuotes

\* C22: a located payload that the strict parser accepts as it is, is
\* accepted after the sanitizer too
C22_SanitizeKeepsParseable ==
    (IsQuiz /\ Ran("sanitize") /\ Loads(Locate(response)).ok) => Loads(json_str).ok

\* The text the Repair Engine works on, with its open string closed, and
\* what the engine keeps of it
Unbalanced == CloseString(From(response, json_start(response)))
Kept == DiscardTrailing(Unbalanced)

\* The Repair Engine has discarded the incomplete trailing record
Discarded == IsQuiz /\ Ran("repair") /\ Kept # Unbalanced

\* C23: when the Repair Engine discards the trailing record, the closers
\* it appends are the net open brackets and braces of the text it keeps,
\* and the strict parser accepts the result
C23_DiscardRebalanced ==
    (Discarded /\ Ran("parse"))
        => /\ Repair(From(response, json_start(response)))
                = Kept \o Times(RK, StrCount(Kept, LK) - StrCount(Kept, RK))
                       \o Times(RB, StrCount(Kept, LB) - StrCount(Kept, RB))
           /\ Loads(json_str).ok

\* The positions a card list can have been built from
CardPositions == 1..(Len(response) + 1)

\* C24: the ids of the cards generate_flashcards returns are pairwise
\* distinct and come from the cards' positions in the source list, in
\* increasing order; a card of a decoded payload is built from the record
\* at the position its id names, whatever id that record carries
C24_CardIdsFromPosition ==
    (IsCard /\ Done)
        => /\ \A j, k \in 1..Len(result) : j # k => result[j].id # result[k].id
           /\ \A j \in 1..Len(result) : \E k \in CardPositions : result[j].id = CardId(k - 1)
           /\ \A j1, j2 \in 1..Len(result) :
                  j1 < j2 => \E k1, k2 \in CardPositions :
                                /\ k1 < k2
                                /\ result[j1].id = CardId(k1 - 1)
                                /\ result[j2].id = CardId(k2 - 1)
           /\ PayloadParsed =>
                  \A j \in 1..Len(result) : \E k \in 1..Len(Payload) :
                      result[j].id = CardId(k - 1) /\ CardBuiltFrom(result[j], Payload[k])

\* The first record was dropped and the second, which carries the id
\* card_001, is returned as card_002
C24_Witness ==
    /\ IsCard /\ Done /\ src.names = <<"cblank", "cid">> /\ PayloadParsed
    /\ Len(result) = 1 /\ result[1].id = "card_002" /\ result[1].question = <<"T">>

\* C25: a request for a chapter quiz is answered with the list
\* _parse_quiz_response makes of the generated text, which is not empty,
\* and no exception leaves generate_chapter_quiz
C25_ChapterQuizReturned ==
    reply.op = "generate_chapter_quiz"
        => /\ reply.raised = "none"
           /\ reply.questions = QuizAlone(TextOf(reply.request.source))
           /\ Len(reply.questions) >= 1

\* The last request was POST /youtube/process for a video that was not
\* refused, so that generate_flashcards ran and returned result
Generated ==
    reply.op = "process_youtube_video" /\ Refusal(reply.request.video) = ""

\* C26: success is reported only with a flashcard set of at least one
\* card; when generate_flashcards returned no card, failure is reported
\* with an error and without a set, and no empty set is ever stored
C26_SuccessHasCards ==
    /\ reply.op = "process_youtube_video" =>
          IF reply.success
          THEN /\ reply.flashcard_set.exists
               /\ Len(reply.flashcard_set.cards) >= 1
               /\ reply.flashcard_set.total_cards = Len(reply.flashcard_set.cards)
          ELSE reply.error # "" /\ ~reply.flashcard_set.exists
    /\ Generated => (reply.success <=> result # <<>>)
    /\ \A id \in SetIds : sets[id].exists => Len(sets[id].cards) >= 1

\* generate_flashcards ran its loop and returned no card; the request was
\* answered with a failure and nothing was stored
C26_Witness ==
    /\ Generated /\ Ran("build") /\ result = <<>>
    /\ ~reply.success /\ \A id \in SetIds : ~sets[id].exists

\* The request names a stored curriculum and a chapter id none of its
\* chapters has
UnknownChapter(request) ==
    /\ curricula[request.curriculum_id].exists
    /\ \A k \in 1..Len(curricula[request.curriculum_id].chapters) :
           curricula[request.curriculum_id].chapters[k].id # request.chapter_id

\* C27: a progress update for a chapter id that is not in the curriculum
\* is answered with 404 and leaves the stored curricula as they were
C27_UnknownChapterRefused ==
    [][(reply'.op = "update_chapter_progress" /\ clock' = clock + 1
            /\ UnknownChapter(reply'.request))
          => (reply'.status = 404 /\ curricula' = curricula)]_vars

\* The three flashcard endpoints
FlashcardOps == {"get_flashcard_set", "update_flashcard_status", "delete_flashcard_set"}

\* The request names a set that is not stored, or a card the stored set
\* does not have
Missing(request) ==
    \/ ~sets[request.set_id].exists
    \/ /\ "card_id" \in DOMAIN request
       /\ \A k \in 1..Len(sets[request.set_id].cards) :
              sets[request.set_id].cards[k].id # request.card_id

\* C28: the flashcard endpoints answer a missing set or a missing card
\* with 404, never 500, and leave the stored sets as they were
C28_MissingIsNotFound ==
    [][(reply'.op \in FlashcardOps /\ clock' = clock + 1 /\ Missing(reply'.request))
          => (reply'.status = 404 /\ sets' = sets)]_vars

\* The counters of a stored set agree with its cards
Consistent(flashcard_set) ==
    /\ flashcard_set.total_cards = Len(flashcard_set.cards)
    /\ flashcard_set.learned_cards =
          Cardinality({k \in 1..Len(flashcard_set.cards) :
                          flashcard_set.cards[k].status = "learned"})
    /\ flashcard_set.learning_cards =
          Cardinality({k \in 1..Len(flashcard_set.cards) :
                          flashcard_set.cards[k].status = "learning"})
    /\ flashcard_set.learned_cards + flashcard_set.learning_cards
          <= flashcard_set.total_cards

\* The step is a status update that was answered with success
UpdateSucceeded ==
    /\ reply'.op = "update_flashcard_status" /\ clock' = clock + 1
    /\ reply'.status = 200

\* C29: every stored set has total_cards = number of cards, learned_cards
\* and learning_cards = number of cards with that status, and their sum at
\* most total_cards; a successful status update changes only the addressed
\* card, which gets the requested status and one more review, and leaves
\* every other card and every other set as it was
C29_UpdateKeepsCounters ==
    [][/\ \A id \in SetIds : sets'[id].exists => Consistent(sets'[id])
       /\ UpdateSucceeded =>
             LET request == reply'.request
                 before == sets[request.set_id]
                 after == sets'[request.set_id]
             IN  /\ before.exists /\ after.exists
                 /\ Len(after.cards) = Len(before.cards)
                 /\ \E k \in 1..Len(before.cards) :
                       /\ before.cards[k].id = request.card_id
                       /\ after.cards[k].status = request.status
                       /\ after.cards[k].review_count = before.cards[k].review_count + 1
                       /\ after.cards[k] =
                             [before.cards[k] EXCEPT
                                 !.status = request.status,
                                 !.review_count = @ + 1,
                                 !.last_reviewed = after.cards[k].last_reviewed]
                       /\ \A j \in 1..Len(before.cards) :
                             j # k => after.cards[j] = before.cards[j]
                 /\ after = [before EXCEPT !.cards = after.cards,
                                            !.learned_cards = after.learned_cards,
                                            !.learning_cards = after.learning_cards]
                 /\ \A id \in SetIds \ {request.set_id} : sets'[id] = sets[id]
                 /\ reply'.set_stats.total_cards = after.total_cards
                 /\ reply'.set_stats.learned_cards = after.learned_cards
                 /\ reply'.set_stats.learning_cards = after.learning_cards]_vars

\* A set of two cards after two successful updates of its second card: it
\* is learned with two reviews, the first card was never reviewed
C29_Witness ==
    /\ reply.op = "update_flashcard_status" /\ reply.status = 200
    /\ reply.request.card_id = "card_002" /\ reply.request.status = "learned"
    /\ sets[reply.request.set_id].exists
    /\ Len(sets[reply.request.set_id].cards) = 2
    /\ sets[reply.request.set_id].cards[2].status = "learned"
    /\ sets[reply.request.set_id].cards[2].review_count = 2
    /\ sets[reply.request.set_id].cards[1].review_count = 0
    /\ sets[reply.request.set_id].learned_cards = 1
    /\ sets[reply.request.set_id].learning_cards = 0

\* The positions that have both a question and an answer, and the answer
\* is the correct one
CorrectPositions(questions, user_answers) ==
    {i \in 1..Len(questions) :
        i <= Len(user_answers) /\ user_answers[i] = questions[i].correct_answer}

\* C30: evaluate_quiz_results returns total_questions = len(questions) and
\* correct_answers = the number of answered positions with the correct
\* answer, so 0 <= correct_answers <= total_questions, whatever the two
\* lengths are; no question gives score 0 and no error
C30_CountsAnsweredPositions ==
    reply.op = "submit_quiz_answers" =>
        LET questions == reply.request.questions
            user_answers == reply.request.user_answers
            results == reply.results
        IN  /\ reply.status = 200
            /\ results.total_questions = Len(questions)
            /\ results.correct_answers =
                  Cardinality(CorrectPositions(questions, user_answers))
            /\ 0 <= results.correct_answers
            /\ results.correct_answers <= results.total_questions
            /\ results.score[1] = results.correct_answers
            /\ questions = <<>> =>
                  (results.score = <<0, 1>> /\ results.correct_answers = 0)

\* Two questions and one answer, which is correct: one of two
C30_Witness ==
    /\ reply.op = "submit_quiz_answers"
    /\ Len(reply.request.questions) = 2
    /\ Len(reply.request.user_answers) = 1
    /\ reply.results.total_questions = 2
    /\ reply.results.correct_answers = 1

====
